---- MODULE Spec2Model ----
(***************************************************************************)
(* Model of the VPSC Python port: the self-consistent step run_vpsc, the   *)
(* Taylor step run_vpfc (src/src/core.py) and the deformation-step loop of *)
(* main_simulation (src/vpsc8/main.py).                                    *)
(*                                                                         *)
(* Floating-point numbers are modelled as exact extended rationals <<n,d>>:*)
(* d > 0 is the finite value n/d in lowest terms, <<1,0>> is +inf,         *)
(* <<-1,0>> is -inf and <<0,0>> is NaN, with the IEEE rules for them.      *)
(***************************************************************************)
EXTENDS Integers, Sequences, FiniteSets, TLC

---------------------------------------------------------------------------
(* Extended rational arithmetic (numpy float64 without rounding)           *)

Abs(x) == IF x < 0 THEN -x ELSE x

Sign(x) == IF x < 0 THEN -1 ELSE IF x > 0 THEN 1 ELSE 0

RECURSIVE Gcd(_, _)
Gcd(a, b) == IF b = 0 THEN a ELSE Gcd(b, a % b)

\* n/d brought to the canonical form; d = 0 gives inf, -inf or NaN
Norm(n, d) ==
    IF d = 0 THEN <<Sign(n), 0>>
    ELSE LET s == IF d < 0 THEN -1 ELSE 1
             g == Gcd(Abs(n), Abs(d))
         IN  <<(s * n) \div g, (s * d) \div g>>

RI(n) == <<n, 1>>
Zero == <<0, 1>>
One == <<1, 1>>
Inf == <<1, 0>>
NaN == <<0, 0>>

IsNaN(a) == a = NaN
IsFinite(a) == a[2] > 0

RMul(a, b) == Norm(a[1] * b[1], a[2] * b[2])

RNeg(a) == <<-a[1], a[2]>>

RAdd(a, b) ==
    IF a[2] = 0 /\ b[2] = 0
    THEN (IF a = b THEN a ELSE NaN)
    ELSE Norm(a[1] * b[2] + b[1] * a[2], a[2] * b[2])

RSub(a, b) == RAdd(a, RNeg(b))

\* a / b for b finite (b = 0 gives inf or NaN as numpy does)
RDiv(a, b) == Norm(a[1] * b[2], a[2] * b[1])

\* a < b; every comparison with NaN is false
RLess(a, b) ==
    IF IsNaN(a) \/ IsNaN(b) THEN FALSE
    ELSE IF a[2] = 0 /\ b[2] = 0 THEN a[1] < b[1]
    ELSE a[1] * b[2] < b[1] * a[2]

---------------------------------------------------------------------------
(* 6-vectors and 6x6 matrices                                              *)

Idx == 1..6

ZeroVec == [i \in Idx |-> Zero]

VAdd(u, v) == [i \in Idx |-> RAdd(u[i], v[i])]
VSub(u, v) == [i \in Idx |-> RSub(u[i], v[i])]
VScale(c, v) == [i \in Idx |-> RMul(c, v[i])]
VDiv(v, c) == [i \in Idx |-> RDiv(v[i], c)]

\* sum of squares of the components: the square of np.linalg.norm
NormSq(v) ==
    RAdd(RAdd(RAdd(RMul(v[1], v[1]), RMul(v[2], v[2])),
              RAdd(RMul(v[3], v[3]), RMul(v[4], v[4]))),
         RAdd(RMul(v[5], v[5]), RMul(v[6], v[6])))

\* matrix @ vector
MatVec(m, v) ==
    [i \in Idx |->
        RAdd(RAdd(RAdd(RMul(m[i][1], v[1]), RMul(m[i][2], v[2])),
                  RAdd(RMul(m[i][3], v[3]), RMul(m[i][4], v[4]))),
             RAdd(RMul(m[i][5], v[5]), RMul(m[i][6], v[6])))]

\* np.identity(6) / np.eye(6)
Identity6 == [i \in Idx |-> [j \in Idx |-> IF i = j THEN One ELSE Zero]]

\* sqrt(a) < t for finite a >= 0 and finite t > 0: with a = n/d and t = p/q,
\* n * q * q < p * p * d, evaluated without forming q * q
SqrtLess(a, t) ==
    LET x == a[1] * t[2]
        y == t[1] * t[1] * a[2]
    IN  x <= (y - 1) \div t[2]

\* sqrt(a) + sqrt(b) < t, decided without taking roots (a, b >= 0 or special)
SqrtSumLess(a, b, t) ==
    IF IsNaN(a) \/ IsNaN(b) \/ IsNaN(t) THEN FALSE
    ELSE IF ~IsFinite(a) \/ ~IsFinite(b) THEN FALSE
    ELSE IF ~IsFinite(t) THEN t = Inf
    ELSE IF ~RLess(Zero, t) THEN FALSE
    ELSE IF b = Zero THEN SqrtLess(a, t)
    ELSE IF a = Zero THEN SqrtLess(b, t)
    ELSE LET t2 == RMul(t, t)
             r == RSub(RAdd(t2, b), a)
         IN  /\ RLess(b, t2)
             /\ RLess(Zero, r)
             /\ RLess(RMul(RI(4), RMul(t2, b)), RMul(r, r))

---------------------------------------------------------------------------
(* Bounds of the model                                                     *)

MaxPhases == 2
MaxGrains == 2
MaxOuter == 2
MaxSteps == 2

---------------------------------------------------------------------------
(* Configuration dictionary.  A key that may be missing is a sequence:     *)
(* <<>> when the key is absent, <<v>> when it holds v.                     *)

Absent == <<>>
Some(v) == <<v>>
\* dict.get(key, default)
Get(o, default) == IF o = Absent THEN default ELSE o[1]

\* config.get("itmaxext", 50), config.get("errs", 1e-5), config.get("eqincr", 0.001)
DefaultItmaxext == 50
DefaultErrs == <<1, 100000>>
DefaultEqincr == <<1, 1000>>

\* np.zeros((3, 3)) and np.ones((3, 3), dtype=int)
Zeros33 == [i \in 1..3 |-> [j \in 1..3 |-> Zero]]
Ones33 == [i \in 1..3 |-> [j \in 1..3 |-> 1]]

Mat33(r1, r2, r3) == [i \in 1..3 |-> IF i = 1 THEN r1 ELSE IF i = 2 THEN r2 ELSE r3]

\* a cubic stiffness matrix in Voigt form (C11 = 3, C12 = 1, C44 = 2)
CubicStiffness ==
    [i \in Idx |-> [j \in Idx |->
        IF i = j THEN (IF i <= 3 THEN RI(3) ELSE RI(2))
        ELSE IF i <= 3 /\ j <= 3 THEN One ELSE Zero]]

ElasticSet == {Identity6, CubicStiffness}

\* phase volume fractions of an aggregate of n phases: graded, summing to 1
Wph(n) == [i \in 1..n |-> Norm(2 * i, n * (n + 1))]

\* aggregates of n phases; every phase has g grains, as read_vpsc_input builds them
PhaseLists(n, g) ==
    {[i \in 1..n |-> [ngrains |-> g, elastic_matrix |-> e[i], weight |-> Wph(n)[i]]] :
        e \in [1..n -> ElasticSet]}

PhasesSet(grains) == UNION {PhaseLists(n, g) : n \in 0..MaxPhases, g \in grains}

\* the process file (read_load_conditions): the keys it stores, or none of
\* them when the file is missing or short
LoadCases ==
    { [applied_udot |-> Absent, iudot |-> Absent, eqincr |-> Absent, nsteps |-> Absent] }
    \cup
    { [applied_udot |-> Some(u), iudot |-> Some(f), eqincr |-> Some(q), nsteps |-> Some(n)] :
        u \in { Zeros33,
                Mat33(<<One, RI(2), Zero>>, <<Zero, Zero, Zero>>, <<Zero, Zero, RI(-1)>>),
                Mat33(<<Inf, Zero, Zero>>, <<Zero, Zero, Zero>>, <<Zero, Zero, Zero>>) },
        f \in { Mat33(<<1, 1, 1>>, <<0, 0, 1>>, <<0, 0, 0>>) },
        q \in { <<1, 2>> },
        n \in 1..MaxSteps }

\* update and output switches of the main input file (read_vpsc_input)
FlagCases ==
    { [iupdori |-> 1, iupdshp |-> 1, iupdhar |-> 1, ntwmod |-> 1, nwrite |-> 1, isave |-> 1],
      [iupdori |-> 0, iupdshp |-> 0, iupdhar |-> 0, ntwmod |-> 0, nwrite |-> 0, isave |-> 0],
      [iupdori |-> 1, iupdshp |-> 0, iupdhar |-> 0, ntwmod |-> 0, nwrite |-> 2, isave |-> 2],
      [iupdori |-> 0, iupdshp |-> 1, iupdhar |-> 1, ntwmod |-> 2, nwrite |-> 0, isave |-> 3] }

InteractionSet == {-1, 0, 2}

\* tolerances and caps a caller of run_vpsc may put in the dictionary
ErrsSet == {Zero, DefaultErrs, RI(4)}
ItmaxextSet == 0..MaxOuter

MkConfig(ph, load, flags, inter, itmax, errs, eps) ==
    [phases |-> ph,
     applied_udot |-> load.applied_udot, iudot |-> load.iudot,
     eqincr |-> load.eqincr, nsteps |-> load.nsteps,
     interaction |-> inter,
     iupdori |-> flags.iupdori, iupdshp |-> flags.iupdshp, iupdhar |-> flags.iupdhar,
     ntwmod |-> flags.ntwmod, nwrite |-> flags.nwrite, isave |-> flags.isave,
     itmaxext |-> itmax, errs |-> errs,
     epsacu |-> eps,
     current_strain |-> Absent, current_stress |-> Absent]

---------------------------------------------------------------------------
(* State                                                                   *)

VARIABLES
    process,        \* the operating-system process: working directory, command line, environment, files (<<>> when it plays no part)
    call,           \* arguments of a library function called on its own (<<>> while the driver runs)
    entry,          \* "main_simulation": the driver runs; "direct": a caller invokes run_vpsc / run_vpfc itself
    config,         \* the configuration dictionary
    pc,             \* position of the program
    i_step,         \* step number of the deformation-step loop (number of the call for a direct caller)
    fn,             \* core calculation of the current step: "none", "run_elastic_calculation", "run_vpfc", "run_vpsc"
    dbar_applied,   \* run_vpsc locals
    max_outer,
    tol,
    outer,
    sbar,
    dbar,
    sbar_old,
    dbar_old,
    converged,
    C_eff,
    iph,            \* phase of the grain loop, 1-based
    igr,            \* grains of phase iph already done
    weight,
    total_weight,
    delta,          \* <<|sbar - sbar_old|^2, |dbar - dbar_old|^2>>, or <<>> before the first test
    ret,            \* value returned to the caller by the last core calculation: <<>> or <<[sbar, dbar]>>
    raised,         \* exception raised to the caller by the last core calculation ("none" when it returned)
    stdout,         \* messages run_vpsc printed in the current call
    trace,          \* operations of the current outer iteration, in order
    calls           \* collaborators the driver called in the current step, in order

vars == <<process, call, entry, config, pc, i_step, fn, dbar_applied, max_outer, tol, outer, sbar, dbar,
          sbar_old, dbar_old, converged, C_eff, iph, igr, weight, total_weight, delta,
          ret, raised, stdout, trace, calls>>

locals == <<dbar_applied, max_outer, tol, outer, sbar, dbar, sbar_old, dbar_old, converged,
            C_eff, iph, igr, weight, total_weight, delta, stdout, trace>>

---------------------------------------------------------------------------
(* Pure parts of run_vpsc / run_vpfc                                       *)

\* 3x3 strain rate times eqincr in Voigt order [11, 22, 33, 23, 13, 12]
AppliedStrain(cfg) ==
    LET u == Get(cfg.applied_udot, Zeros33)
        q == Get(cfg.eqincr, DefaultEqincr)
    IN  [i \in Idx |->
            CASE i = 1 -> RMul(u[1][1], q)
              [] i = 2 -> RMul(u[2][2], q)
              [] i = 3 -> RMul(u[3][3], q)
              [] i = 4 -> RMul(u[2][3], q)
              [] i = 5 -> RMul(u[1][3], q)
              [] i = 6 -> RMul(u[1][2], q)]

\* weight = 1.0 / ngrains if ngrains > 0 else 1.0
GrainWeight(ngrains) == IF ngrains > 0 THEN Norm(1, ngrains) ELSE One

\* grain_stress = elastic_matrix @ dbar_applied
GrainStress(elastic_matrix, d) == MatVec(elastic_matrix, d)

\* the division without its guard
AverageUnguarded(s, tw) == VDiv(s, tw)

\* if total_weight > 0: sbar /= total_weight
Average(s, tw) == IF RLess(Zero, tw) THEN VDiv(s, tw) ELSE s

\* delta < tol, with delta = norm(sbar - sbar_old) + norm(dbar - dbar_old)
DeltaOf(s, so, d, do) == <<NormSq(VSub(s, so)), NormSq(VSub(d, do))>>
DeltaLess(dl, t) == SqrtSumLess(dl[1], dl[2], t)

\* the loop bound off by one
LoopContinuesInclusive(o, mo) == o <= mo

\* for outer in range(max_outer): another iteration is run
LoopContinues(o, mo) == o < mo

\* the grain loop of run_vpfc, folded: sbar and total_weight after n more grains of one phase
RECURSIVE AddGrains(_, _, _, _)
AddGrains(acc, w, gs, n) ==
    IF n = 0 THEN acc
    ELSE AddGrains([sbar |-> VAdd(acc.sbar, VScale(w, gs)),
                    total_weight |-> RAdd(acc.total_weight, w)], w, gs, n - 1)

\* the phase loop, folded from phase k on
RECURSIVE AddPhases(_, _, _, _)
AddPhases(acc, phases, k, d) ==
    IF k > Len(phases) THEN acc
    ELSE AddPhases(AddGrains(acc, GrainWeight(phases[k].ngrains),
                             GrainStress(phases[k].elastic_matrix, d), phases[k].ngrains),
                   phases, k + 1, d)

\* the aggregate stress both calculations form from the applied strain d
AggregateStress(phases, d) ==
    LET a == AddPhases([sbar |-> ZeroVec, total_weight |-> Zero], phases, 1, d)
    IN  Average(a.sbar, a.total_weight)

\* the state stored without the strain accumulated so far
StoreStateOverwriting(cfg, s, d) ==
    [cfg EXCEPT !.current_strain = Some(d), !.current_stress = Some(s)]

\* config["current_strain"] = config.get("current_strain", zeros) + dbar; config["current_stress"] = sbar
StoreState(cfg, s, d) ==
    [cfg EXCEPT !.current_strain = Some(VAdd(Get(cfg.current_strain, ZeroVec), d)),
                !.current_stress = Some(s)]

---------------------------------------------------------------------------
(* Initial state                                                           *)

NoFlags == [iupdori |-> 0, iupdshp |-> 0, iupdhar |-> 0, ntwmod |-> 0, nwrite |-> 0, isave |-> 0]

\* read_vpsc_input stores neither "itmaxext" nor "errs"; main_simulation sets config["epsacu"] = 0.0.
\* The accumulated strain is kept as the sequence of its addends
\* <<|dbar|^2, eqincr>>, each standing for norm(dbar) * eqincr.
DriverConfigs ==
    {MkConfig(ph, load, flags, inter, Absent, Absent, Some(<<>>)) :
        ph \in PhasesSet({MaxGrains}),
        load \in LoadCases, flags \in FlagCases, inter \in InteractionSet}

\* a dictionary built by a caller of run_vpsc / run_vpfc
DirectConfigs ==
    {MkConfig(ph, load, NoFlags, 2, Some(itmax), Some(errs), Absent) :
        ph \in PhasesSet(0..MaxGrains),
        load \in {l \in LoadCases : l.nsteps \in {Absent, Some(1)}},
        itmax \in ItmaxextSet, errs \in ErrsSet}

Init ==
    /\ process = <<>>
    /\ call = <<>>
    /\ entry \in {"main_simulation", "direct"}
    /\ config \in (IF entry = "main_simulation" THEN DriverConfigs ELSE DirectConfigs)
    /\ pc = "step_head"
    /\ i_step = 0
    /\ fn = "none"
    /\ dbar_applied = ZeroVec
    /\ max_outer = 0
    /\ tol = Zero
    /\ outer = 0
    /\ sbar = ZeroVec
    /\ dbar = ZeroVec
    /\ sbar_old = ZeroVec
    /\ dbar_old = ZeroVec
    /\ converged = FALSE
    /\ C_eff = Identity6
    /\ iph = 1
    /\ igr = 0
    /\ weight = One
    /\ total_weight = Zero
    /\ delta = <<>>
    /\ ret = <<>>
    /\ raised = "none"
    /\ stdout = <<>>
    /\ trace = <<>>
    /\ calls = <<>>

---------------------------------------------------------------------------
(* Core calculations (src/src/core.py)                                     *)

Returned(s, d) == Some([sbar |-> s, dbar |-> d])

\* run_elastic_calculation: placeholder returning zero tensors
RunElastic ==
    /\ pc = "elastic_entry"
    /\ ret' = Returned(ZeroVec, ZeroVec)
    /\ raised' = "none"
    /\ pc' = "returned"
    /\ UNCHANGED <<process, call, entry, config, i_step, fn, calls>>
    /\ UNCHANGED locals

\* run_vpfc: the whole Taylor calculation
RunVpfc ==
    /\ pc = "vpfc_entry"
    /\ LET d == AppliedStrain(config)
           s == AggregateStress(config.phases, d)
       IN  /\ config' = StoreState(config, s, d)
           /\ ret' = Returned(s, d)
    /\ raised' = "none"
    /\ pc' = "returned"
    /\ UNCHANGED <<process, call, entry, i_step, fn, calls>>
    /\ UNCHANGED locals

\* run_vpsc, up to the outer loop: boundary conditions, cap, tolerance, initial guess
VpscEnter ==
    /\ pc = "vpsc_entry"
    /\ dbar_applied' = AppliedStrain(config)
    /\ max_outer' = Get(config.itmaxext, DefaultItmaxext)
    /\ tol' = Get(config.errs, DefaultErrs)
    /\ sbar' = ZeroVec
    /\ dbar' = dbar_applied'
    /\ converged' = FALSE
    /\ outer' = 0
    /\ sbar_old' = ZeroVec
    /\ dbar_old' = ZeroVec
    /\ C_eff' = Identity6
    /\ iph' = 1
    /\ igr' = 0
    /\ weight' = One
    /\ total_weight' = Zero
    /\ delta' = <<>>
    /\ stdout' = <<"Running VPSC calculation">>
    /\ trace' = <<>>
    /\ pc' = "outer_head"
    /\ UNCHANGED <<process, call, entry, config, i_step, fn, ret, raised, calls>>

\* position of the grain loop from phase k on: the first phase that has a
\* grain left to solve, or Len(phases) + 1 when the loops are exhausted
RECURSIVE PhaseFrom(_, _)
PhaseFrom(phases, k) ==
    IF k > Len(phases) THEN k
    ELSE IF phases[k].ngrains > 0 THEN k
    ELSE PhaseFrom(phases, k + 1)

\* weight as the phase loop leaves it on reaching position k from phase j
\* (the weight of the last phase entered, w when none was)
WeightAt(phases, j, k, w) ==
    IF k <= Len(phases) THEN GrainWeight(phases[k].ngrains)
    ELSE IF j <= Len(phases) THEN GrainWeight(phases[Len(phases)].ngrains)
    ELSE w

\* one more iteration of "for outer in range(max_outer)": save the old averages,
\* set the placeholder medium, reset the accumulators, enter the phase loop
OuterBegin ==
    /\ pc = "outer_head"
    /\ LoopContinues(outer, max_outer)
    /\ sbar_old' = sbar
    /\ dbar_old' = dbar
    /\ C_eff' = Identity6
    /\ sbar' = ZeroVec
    /\ dbar' = dbar_applied
    /\ total_weight' = Zero
    /\ iph' = PhaseFrom(config.phases, 1)
    /\ igr' = 0
    /\ weight' = WeightAt(config.phases, 1, iph', weight)
    /\ trace' = <<"C_eff = np.identity(6)">>
    /\ pc' = "grains"
    /\ UNCHANGED <<process, call, entry, config, i_step, fn, dbar_applied, max_outer, tol, outer, converged,
                   delta, ret, raised, stdout, calls>>

\* one grain: its stress from the applied strain, added to the weighted sum;
\* then on to the next grain, of this phase or of the next phase that has one
GrainSolve ==
    /\ pc = "grains"
    /\ iph <= Len(config.phases)
    /\ sbar' = VAdd(sbar, VScale(weight, GrainStress(config.phases[iph].elastic_matrix, dbar_applied)))
    /\ total_weight' = RAdd(total_weight, weight)
    /\ trace' = Append(trace, "grain stress")
    /\ IF igr + 1 < config.phases[iph].ngrains
       THEN /\ igr' = igr + 1
            /\ UNCHANGED <<iph, weight>>
       ELSE /\ iph' = PhaseFrom(config.phases, iph + 1)
            /\ igr' = 0
            /\ weight' = WeightAt(config.phases, iph + 1, iph', weight)
    /\ UNCHANGED <<process, call, entry, config, pc, i_step, fn, dbar_applied, max_outer, tol, outer, dbar,
                   sbar_old, dbar_old, converged, C_eff, delta, ret, raised, stdout, calls>>

\* the phases are exhausted: the weighted sum is divided by the total weight
AverageStep ==
    /\ pc = "grains"
    /\ iph > Len(config.phases)
    /\ sbar' = Average(sbar, total_weight)
    /\ trace' = Append(trace, "average")
    /\ pc' = "check"
    /\ UNCHANGED <<process, call, entry, config, i_step, fn, dbar_applied, max_outer, tol, outer, dbar,
                   sbar_old, dbar_old, converged, C_eff, iph, igr, weight, total_weight, delta,
                   ret, raised, stdout, calls>>

\* convergence test of the iteration
ConvCheck ==
    /\ pc = "check"
    /\ delta' = DeltaOf(sbar, sbar_old, dbar, dbar_old)
    /\ IF DeltaLess(delta', tol)
       THEN /\ converged' = TRUE
            /\ stdout' = Append(stdout, "VPSC converged")
            /\ outer' = outer
            /\ pc' = "vpsc_exit"
       ELSE /\ converged' = converged
            /\ stdout' = stdout
            /\ outer' = outer + 1
            /\ pc' = "outer_head"
    /\ UNCHANGED <<process, call, entry, config, i_step, fn, dbar_applied, max_outer, tol, sbar, dbar,
                   sbar_old, dbar_old, C_eff, iph, igr, weight, total_weight, ret, raised,
                   trace, calls>>

\* after the loop: the warning, the stored state, the return
VpscExit ==
    /\ \/ pc = "vpsc_exit"
       \/ pc = "outer_head" /\ ~LoopContinues(outer, max_outer)
    /\ stdout' = IF ~converged THEN Append(stdout, "Warning: VPSC did not converge") ELSE stdout
    /\ config' = StoreState(config, sbar, dbar)
    /\ ret' = Returned(sbar, dbar)
    /\ raised' = "none"
    /\ pc' = "returned"
    /\ UNCHANGED <<process, call, entry, i_step, fn, dbar_applied, max_outer, tol, outer, sbar, dbar,
                   sbar_old, dbar_old, converged, C_eff, iph, igr, weight, total_weight, delta,
                   trace, calls>>

\* iterations of the outer loop run so far (outer + 1 once the loop was left by break)
OuterCount == IF converged THEN outer + 1 ELSE outer

---------------------------------------------------------------------------
(* Deformation-step loop of main_simulation (src/vpsc8/main.py)            *)

\* num_steps = config.get("nsteps", 1)
NumSteps == Get(config.nsteps, 1)

\* core calculation selected by config["interaction"]
CoreOf(interaction) ==
    IF interaction = -1 THEN "run_elastic_calculation"
    ELSE IF interaction = 0 THEN "run_vpfc"
    ELSE "run_vpsc"

EntryOf(f) ==
    IF f = "run_elastic_calculation" THEN "elastic_entry"
    ELSE IF f = "run_vpfc" THEN "vpfc_entry"
    ELSE "vpsc_entry"

\* for i_step in range(1, num_steps + 1): the core calculation of the step is called
DriverStep ==
    /\ entry = "main_simulation"
    /\ pc = "step_head"
    /\ i_step < NumSteps
    /\ i_step' = i_step + 1
    /\ fn' = CoreOf(config.interaction)
    /\ pc' = EntryOf(fn')
    /\ calls' = <<fn'>>
    /\ ret' = <<>>
    /\ UNCHANGED <<process, call, entry, config, raised>>
    /\ UNCHANGED locals

\* the steps of the process are exhausted
DriverEnd ==
    /\ entry = "main_simulation"
    /\ pc = "step_head"
    /\ i_step >= NumSteps
    /\ pc' = "finished"
    /\ UNCHANGED <<process, call, entry, config, i_step, fn, ret, raised, calls>>
    /\ UNCHANGED locals

\* after the core calculation: the stress-strain line and the accumulated strain
DriverOutput ==
    /\ entry = "main_simulation"
    /\ pc = "returned"
    /\ config' = [config EXCEPT !.epsacu =
                    Some(Append(Get(config.epsacu, <<>>),
                                <<NormSq(ret[1].dbar), Get(config.eqincr, DefaultEqincr)>>))]
    /\ pc' = "upd_ori"
    /\ UNCHANGED <<process, call, entry, i_step, fn, ret, raised, calls>>
    /\ UNCHANGED locals

\* the log of the step after a conditional call of a collaborator
CallIf(cond, callee) == IF cond THEN Append(calls, callee) ELSE calls

\* if config.get("iupdori") == 1: update_orientation
UpdateOrientation ==
    /\ entry = "main_simulation"
    /\ pc = "upd_ori"
    /\ calls' = CallIf(config.iupdori = 1, "update_orientation")
    /\ pc' = "upd_har"
    /\ UNCHANGED <<process, call, entry, config, i_step, fn, ret, raised>>
    /\ UNCHANGED locals

\* if config.get("iupdhar") == 1: update_hardening
UpdateHardening ==
    /\ entry = "main_simulation"
    /\ pc = "upd_har"
    /\ calls' = CallIf(config.iupdhar = 1, "update_hardening")
    /\ pc' = "upd_shp"
    /\ UNCHANGED <<process, call, entry, config, i_step, fn, ret, raised>>
    /\ UNCHANGED locals

\* if config.get("iupdshp") == 1: update_shape
UpdateShape ==
    /\ entry = "main_simulation"
    /\ pc = "upd_shp"
    /\ calls' = CallIf(config.iupdshp = 1, "update_shape")
    /\ pc' = "upd_twin"
    /\ UNCHANGED <<process, call, entry, config, i_step, fn, ret, raised>>
    /\ UNCHANGED locals

\* if config.get("ntwmod", 0) > 0: update_twinning
UpdateTwinning ==
    /\ entry = "main_simulation"
    /\ pc = "upd_twin"
    /\ calls' = CallIf(config.ntwmod > 0, "update_twinning")
    /\ pc' = "wr_tex"
    /\ UNCHANGED <<process, call, entry, config, i_step, fn, ret, raised>>
    /\ UNCHANGED locals

\* if nwrite > 0 and i_step % nwrite == 0: write_texture
WriteTexture ==
    /\ entry = "main_simulation"
    /\ pc = "wr_tex"
    /\ calls' = CallIf(config.nwrite > 0 /\ i_step % config.nwrite = 0, "write_texture")
    /\ pc' = "wr_pm"
    /\ UNCHANGED <<process, call, entry, config, i_step, fn, ret, raised>>
    /\ UNCHANGED locals

\* if i_step == config.get("isave", -1): write_postmortem; the step ends
WritePostmortem ==
    /\ entry = "main_simulation"
    /\ pc = "wr_pm"
    /\ calls' = CallIf(i_step = config.isave, "write_postmortem")
    /\ pc' = "step_head"
    /\ UNCHANGED <<process, call, entry, config, i_step, fn, ret, raised>>
    /\ UNCHANGED locals

---------------------------------------------------------------------------
(* A caller that invokes run_vpsc / run_vpfc itself, up to MaxSteps times  *)

DirectCall ==
    /\ entry = "direct"
    /\ pc \in {"step_head", "returned"}
    /\ i_step < MaxSteps
    /\ i_step' = i_step + 1
    /\ fn' \in {"run_vpsc", "run_vpfc"}
    /\ pc' = EntryOf(fn')
    /\ calls' = <<fn'>>
    /\ ret' = <<>>
    /\ UNCHANGED <<process, call, entry, config, raised>>
    /\ UNCHANGED locals

---------------------------------------------------------------------------

Next ==
    \/ DriverStep
    \/ DriverEnd
    \/ DriverOutput
    \/ UpdateOrientation
    \/ UpdateHardening
    \/ UpdateShape
    \/ UpdateTwinning
    \/ WriteTexture
    \/ WritePostmortem
    \/ DirectCall
    \/ RunElastic
    \/ RunVpfc
    \/ VpscEnter
    \/ OuterBegin
    \/ GrainSolve
    \/ AverageStep
    \/ ConvCheck
    \/ VpscExit

Spec == Init /\ [][Next]_vars

TypeOK ==
    /\ entry \in {"main_simulation", "direct", "read_vpsc_input", "update_grain_shapes",
                  "voigt", "chg_basis", "lu_inverse"}
    /\ pc \in {"step_head", "elastic_entry", "vpfc_entry", "vpsc_entry", "outer_head",
               "grains", "check", "vpsc_exit", "returned", "upd_ori",
               "upd_har", "upd_shp", "upd_twin", "wr_tex", "wr_pm", "finished",
               "read_entry", "read_load", "runs", "call", "back", "raised"}
    /\ outer \in 0..DefaultItmaxext
    /\ converged \in BOOLEAN

---------------------------------------------------------------------------
(* run_vpsc as a function of the dictionary: the outer loop folded        *)

\* the loop from its head, with `o` iterations done and aggregate stress s
RECURSIVE OuterLoop(_, _, _, _, _, _)
OuterLoop(phases, da, mo, t, o, s) ==
    IF ~LoopContinues(o, mo) THEN [converged |-> FALSE, count |-> o, sbar |-> s]
    ELSE LET s2 == AggregateStress(phases, da)
         IN  IF DeltaLess(DeltaOf(s2, s, da, da), t)
             THEN [converged |-> TRUE, count |-> o + 1, sbar |-> s2]
             ELSE OuterLoop(phases, da, mo, t, o + 1, s2)

RunVpscOutcome(cfg) ==
    OuterLoop(cfg.phases, AppliedStrain(cfg), Get(cfg.itmaxext, DefaultItmaxext),
              Get(cfg.errs, DefaultErrs), 0, ZeroVec)

\* the imposed loading multiplied by k
ScaleLoading(cfg, k) ==
    IF cfg.applied_udot = Absent THEN cfg
    ELSE [cfg EXCEPT !.applied_udot =
            Some([i \in 1..3 |-> [j \in 1..3 |-> RMul(k, cfg.applied_udot[1][i][j])]])]

\* the stepwise run_vpsc and the folded one agree
StepwiseMatchesFolded ==
    (pc = "returned" /\ fn = "run_vpsc") =>
        LET o == RunVpscOutcome(config)
        IN  /\ o.converged = converged
            /\ o.count = OuterCount
            /\ o.sbar = ret[1].sbar

---------------------------------------------------------------------------
(* Properties                                                              *)

VpscReturned == pc = "returned" /\ fn = "run_vpsc"
VpfcReturned == pc = "returned" /\ fn = "run_vpfc"

FiniteVec(v) == \A i \in Idx : IsFinite(v[i])

\* sum over the grains of (grain volume fraction x grain stress): the grains
\* of a phase share the phase's volume fraction equally
RECURSIVE VolumeWeightedStress(_, _, _)
VolumeWeightedStress(phases, k, d) ==
    IF k > Len(phases) THEN ZeroVec
    ELSE VAdd(VScale(phases[k].weight, GrainStress(phases[k].elastic_matrix, d)),
              VolumeWeightedStress(phases, k + 1, d))

\* C1: the aggregate stress returned by run_vpsc and run_vpfc is the sum over
\* all grains of grain volume fraction times grain stress, each phase
\* contributing in proportion to its volume fraction.
C1_VolumeWeightedAverage ==
    ( /\ pc = "returned"
      /\ fn \in {"run_vpsc", "run_vpfc"}
      /\ fn = "run_vpsc" => OuterCount >= 1
      /\ \A i \in DOMAIN config.phases : config.phases[i].ngrains > 0
      /\ Len(config.phases) >= 1 )
    => ret[1].sbar = VolumeWeightedStress(config.phases, 1, AppliedStrain(config))

\* C2: for a single-phase aggregate of identical grains under a non-zero
\* strain rate, run_vpsc converges in exactly one outer iteration and returns
\* stress = elastic_matrix applied to (strain rate x eqincr).
C2_OneIteration ==
    ( /\ VpscReturned
      /\ Len(config.phases) = 1
      /\ config.phases[1].ngrains >= 1
      /\ FiniteVec(dbar_applied)
      /\ dbar_applied # ZeroVec
      /\ RLess(Zero, tol)
      /\ max_outer >= 1 )
    => /\ converged
       /\ OuterCount = 1
       /\ ret[1].sbar = MatVec(config.phases[1].elastic_matrix, dbar_applied)

\* C3: when run_vpsc leaves the outer loop at the cap without convergence it
\* reports a non-convergence condition to its caller.
C3_NonConvergenceReported ==
    (VpscReturned /\ ~converged) => raised = "NonConvergenceError"

\* C4: when the outer loop of run_vpsc ends without convergence, the
\* committed current_strain and current_stress of the dictionary are left unchanged.
C4_NoCommitOnFailure ==
    [][ (fn = "run_vpsc" /\ ~converged /\ pc # "returned" /\ pc' = "returned")
        => /\ config'.current_strain = config.current_strain
           /\ config'.current_stress = config.current_stress ]_vars

Updaters == {"update_orientation", "update_hardening", "update_shape", "update_twinning"}

UpdaterCalled == \E i \in DOMAIN calls : calls[i] \in Updaters

\* C5: in a step of the driver the post-step updaters are called only if the
\* step's outer loop has converged.
C5_UpdatersOnlyAfterConvergence ==
    (entry = "main_simulation" /\ fn = "run_vpsc" /\ UpdaterCalled) => converged

\* the grains of the aggregate
RECURSIVE TotalGrains(_, _)
TotalGrains(phases, k) ==
    IF k > Len(phases) THEN 0 ELSE phases[k].ngrains + TotalGrains(phases, k + 1)

\* C6: every outer iteration performs one Eshelby/interaction-tensor
\* computation from the current effective modulus, then one grain solve per
\* grain, then one effective-medium update.
C6_IterationOrder ==
    (fn = "run_vpsc" /\ pc = "check") =>
        /\ Len(trace) = TotalGrains(config.phases, 1) + 2
        /\ trace[1] = "eshelby_tensor"
        /\ \A i \in 2..(Len(trace) - 1) : trace[i] = "grain stress"
        /\ trace[Len(trace)] = "average"

\* the flag of the velocity-gradient component behind Voigt component i
FlagOf(f, i) ==
    CASE i = 1 -> f[1][1]
      [] i = 2 -> f[2][2]
      [] i = 3 -> f[3][3]
      [] i = 4 -> f[2][3]
      [] i = 5 -> f[1][3]
      [] i = 6 -> f[1][2]

MixedBoundary(cfg) ==
    /\ cfg.iudot # Absent
    /\ \E i \in Idx : FlagOf(cfg.iudot[1], i) = 0
    /\ \E i \in Idx : FlagOf(cfg.iudot[1], i) = 1

\* C7: under a mixed boundary specification the components that are not
\* imposed are non-zero in the response run_vpsc returns.
C7_FreeComponentsResolved ==
    (VpscReturned /\ MixedBoundary(config) /\ dbar_applied # ZeroVec) =>
        \A i \in Idx : FlagOf(config.iudot[1], i) = 0 => ret[1].dbar[i] # Zero

\* C8: with a zero imposed strain rate, a positive tolerance and an outer cap
\* of at least 1, run_vpsc converges and returns the zero stress vector.
C8_ZeroLoadConverges ==
    (VpscReturned /\ dbar_applied = ZeroVec /\ RLess(Zero, tol) /\ max_outer >= 1) =>
        /\ converged
        /\ ret[1].sbar = ZeroVec

C8_Witness ==
    /\ VpscReturned
    /\ config.applied_udot = Some(Zeros33)
    /\ Len(config.phases) = 2
    /\ config.phases[1].elastic_matrix # config.phases[2].elastic_matrix
    /\ config.phases[1].ngrains >= 2
    /\ RLess(Zero, tol)
    /\ converged
    /\ OuterCount = 1
    /\ ret[1].sbar = ZeroVec

InVpsc == fn = "run_vpsc" /\ pc # "vpsc_entry"

C9_Bounded ==
    InVpsc =>
        /\ outer <= max_outer
        /\ OuterCount <= max_outer
        /\ pc = "returned" =>
            /\ converged => (OuterCount >= 1 /\ DeltaLess(delta, tol))
            /\ ~converged => (outer = max_outer /\ (delta # <<>> => ~DeltaLess(delta, tol)))

\* run_vpsc is executing
Running == pc \in {"vpsc_entry", "outer_head", "grains", "check", "vpsc_exit"}

\* steps one outer iteration takes: its begin, its grains, the average, the test
IterationCost == TotalGrains(config.phases, 1) + 3

\* steps run_vpsc has left at most; 0 once it returned
Remaining ==
    CASE pc = "vpsc_entry" -> Get(config.itmaxext, DefaultItmaxext) * IterationCost + 2
      [] pc = "outer_head" -> (max_outer - outer) * IterationCost + 1
      [] pc = "grains" -> (max_outer - outer) * IterationCost + 1 - Len(trace)
      [] pc = "check" -> (max_outer - outer - 1) * IterationCost + 2
      [] pc = "vpsc_exit" -> 1
      [] OTHER -> 0

\* C9: run_vpsc terminates, converged or at the cap, after at most itmaxext
\* outer iterations: every step of it lowers the non-negative count of steps
\* left, and the iterations never exceed the cap.
C9_Terminates ==
    [][ /\ Running => (Remaining' < Remaining /\ Remaining' >= 0)
        /\ C9_Bounded' ]_vars

C9_Witness ==
    /\ VpscReturned
    /\ ~converged
    /\ OuterCount = max_outer
    /\ max_outer >= 2

ScaleFactors == {RI(4)}

\* C10: the convergence decision of run_vpsc is the same when the imposed
\* loading is scaled by a positive factor.
C10_ScaleInvariantDecision ==
    (VpscReturned /\ RLess(Zero, tol) /\ FiniteVec(dbar_applied)) =>
        \A k \in ScaleFactors :
            LET o == RunVpscOutcome(ScaleLoading(config, k))
            IN  o.converged = converged /\ o.count = OuterCount

---------------------------------------------------------------------------
(* The main input file (src/src/readers.py, read_vpsc_input) and the path  *)
(* from it to the iteration limits of run_vpsc                             *)

\* "ngrains": 500
DefaultNgrains == 500

\* values a token of the volume-fraction line may hold
WphTokenSet == {<<1, 4>>, <<1, 2>>, One}

\* the first n elements of a sequence that has at least n
Take(seq, n) == [i \in 1..n |-> seq[i]]

Min(a, b) == IF a < b THEN a ELSE b

RECURSIVE SumSeq(_, _)
SumSeq(seq, k) == IF k > Len(seq) THEN Zero ELSE RAdd(seq[k], SumSeq(seq, k + 1))

\* the lines of the main input file that decide fractions, tolerances and caps
InputFiles ==
    { [nph |-> n, wph_tokens |-> w, precision_tokens |-> p, itmax_tokens |-> m,
       elastic_matrix |-> e] :
        n \in 1..MaxPhases,
        w \in UNION {[1..k -> WphTokenSet] : k \in 1..(MaxPhases + 1)},
        p \in { <<<<1, 1000>>, <<1, 1000>>, <<1, 1000>>, <<1, 100>>>>, <<<<1, 100>>>> },
        m \in { <<100, 100, 25>>, <<2, 25, 25, 7>>, <<3>> },
        e \in ElasticSet }

\* phases = [...]: one dictionary per phase, weight taken from wph as read
PhaseData(cfgwph, nph, e) ==
    [i \in 1..nph |->
        [phase_id |-> i,
         weight |-> IF i <= Len(cfgwph) THEN cfgwph[i] ELSE One,
         ngrains |-> DefaultNgrains,
         elastic_matrix |-> e]]

\* the dictionary read_vpsc_input returns for a file whose fraction line has
\* at least nph tokens
ReadResult(f) ==
    LET wph == Take(f.wph_tokens, f.nph)
    IN  [nph |-> f.nph,
         wph |-> wph,
         precision |-> Take(f.precision_tokens, Min(4, Len(f.precision_tokens))),
         itmax |-> Take(f.itmax_tokens, Min(3, Len(f.itmax_tokens)))]
        @@ MkConfig(PhaseData(wph, f.nph, f.elastic_matrix),
                    CHOOSE l \in LoadCases : l.applied_udot = Absent,
                    CHOOSE fl \in FlagCases : fl.iupdori = 1 /\ fl.iupdshp = 1,
                    2, Absent, Absent, Absent)

\* state of the run_vpsc locals before any call
Idle ==
    /\ i_step = 0
    /\ dbar_applied = ZeroVec
    /\ max_outer = 0
    /\ tol = Zero
    /\ outer = 0
    /\ sbar = ZeroVec
    /\ dbar = ZeroVec
    /\ sbar_old = ZeroVec
    /\ dbar_old = ZeroVec
    /\ converged = FALSE
    /\ C_eff = Identity6
    /\ iph = 1
    /\ igr = 0
    /\ weight = One
    /\ total_weight = Zero
    /\ delta = <<>>
    /\ ret = <<>>
    /\ raised = "none"
    /\ stdout = <<>>
    /\ trace = <<>>
    /\ calls = <<>>

ReaderInit ==
    /\ process = <<>>
    /\ entry = "read_vpsc_input"
    /\ call \in {[file |-> f, load |-> l] :
                    f \in InputFiles,
                    l \in {c \in LoadCases : c.nsteps \in {Absent, Some(1)}
                                             /\ c.applied_udot # Some(Zeros33)}}
    /\ config = <<>>
    /\ pc = "read_entry"
    /\ fn = "none"
    /\ Idle

\* read_vpsc_input: IndexError when the fraction line has fewer than nph tokens
ReadVpscInput ==
    /\ pc = "read_entry"
    /\ IF Len(call.file.wph_tokens) < call.file.nph
       THEN /\ raised' = "IndexError"
            /\ pc' = "raised"
            /\ UNCHANGED <<config, stdout>>
       ELSE /\ config' = ReadResult(call.file)
            /\ stdout' = <<"Parsed VPSC input">>
            /\ pc' = "read_load"
            /\ UNCHANGED raised
    /\ UNCHANGED <<process, call, entry, i_step, fn, dbar_applied, max_outer, tol, outer, sbar, dbar,
                   sbar_old, dbar_old, converged, C_eff, iph, igr, weight, total_weight,
                   delta, ret, trace, calls>>

\* read_load_conditions stores the keys of the process file; the driver then
\* enters its first step and, for interaction 2, run_vpsc
ReadLoadConditions ==
    /\ pc = "read_load"
    /\ config' = [config EXCEPT !.applied_udot = call.load.applied_udot,
                                !.iudot = call.load.iudot,
                                !.eqincr = call.load.eqincr,
                                !.nsteps = call.load.nsteps]
    /\ fn' = "run_vpsc"
    /\ i_step' = 1
    /\ pc' = "vpsc_entry"
    /\ UNCHANGED <<process, call, entry, ret, raised, calls>>
    /\ UNCHANGED locals

ReaderNext ==
    \/ ReadVpscInput
    \/ ReadLoadConditions
    \/ VpscEnter

ReaderSpec == ReaderInit /\ [][ReaderNext]_vars

\* read_vpsc_input has returned its dictionary
ReaderReturned == entry = "read_vpsc_input" /\ pc \in {"read_load", "vpsc_entry", "outer_head"}

\* C11: after read_vpsc_input the volume fractions of the dictionary, in
\* config['wph'] and in the phases' 'weight', sum to 1.
C11_FractionsSumToOne ==
    ReaderReturned =>
        /\ SumSeq(config.wph, 1) = One
        /\ SumSeq([i \in DOMAIN config.phases |-> config.phases[i].weight], 1) = One

\* C12: the cap and the tolerance run_vpsc applies are among the iteration
\* limits and the precisions of the input file.
C12_LimitsFromFile ==
    (entry = "read_vpsc_input" /\ pc = "outer_head") =>
        /\ \E i \in DOMAIN config.itmax : max_outer = config.itmax[i]
        /\ \E i \in DOMAIN config.precision : tol = config.precision[i]

\* a step of the grain loop: the solve of one grain
GrainSolveStep == pc = "grains" /\ trace' = Append(trace, "grain stress")

\* C13: the solve of a grain writes only that grain's own state: it leaves
\* the variables shared by all grains (the accumulated stress and weight) as
\* they are, so that no two grain solves write the same variable.
C13_GrainSolveWritesOwnState ==
    [][ GrainSolveStep => (sbar' = sbar /\ total_weight' = total_weight) ]_vars

---------------------------------------------------------------------------
(* Initial grain shapes (src/vpsc8/main.py 120-130, src/src/shape.py        *)
(* update_grain_shapes), run twice on the same input                       *)

Ones3 == <<One, One, One>>

\* values np.random.normal(0, 0.01, 3) may draw (any real triple is possible)
NoiseSet == { <<Zero, Zero, Zero>>, <<<<1, 100>>, <<-1, 100>>, <<-1, 1>>>> }

RMax(a, b) == IF RLess(a, b) THEN b ELSE a

\* grain_ratios = [max(0.1, ellipsoid_ratios[j] + variations[j]) for j in range(3)]
GrainRatios(ellipsoid_ratios, variations) ==
    [j \in 1..3 |-> RMax(<<1, 10>>, RAdd(ellipsoid_ratios[j], variations[j]))]

\* update_grain_shapes(phase_data), with the numbers the generator draws for
\* the grains it creates
UpdateGrainShapes(phase_data, draws) ==
    LET ellipsoid_ratios == Get(phase_data.ellipsoid_ratios, Ones3)
    IN  IF phase_data.grains = Absent \/ phase_data.grains = Some(<<>>)
        THEN [phase_data EXCEPT !.grains =
                Some([i \in 1..MaxGrains |->
                        [ellipsoid_ratios |-> GrainRatios(ellipsoid_ratios, draws[i]),
                         grain_id |-> i - 1]])]
        ELSE [phase_data EXCEPT !.grains =
                Some([i \in DOMAIN phase_data.grains[1] |->
                        [phase_data.grains[1][i] EXCEPT !.ellipsoid_ratios = ellipsoid_ratios]])]

\* the driver's loop over the phases before the first step
InitGrainShapes(phases, draws) ==
    [k \in DOMAIN phases |->
        IF phases[k].ishape > 0
        THEN UpdateGrainShapes(
                [phases[k] EXCEPT !.ellipsoid_ratios = Some(Get(phases[k].ellipsoid_ratios, Ones3))],
                draws[k])
        ELSE phases[k]]

ShapePhase ==
    { [ishape |-> sh, ellipsoid_ratios |-> r, grains |-> g] :
        sh \in {0, 1, 2},
        r \in {Absent, Some(<<One, <<1, 2>>, <<1, 20>>>>)},
        g \in {Absent, Some(<<>>),
               Some(<<[ellipsoid_ratios |-> Ones3, grain_id |-> 0]>>)} }

ShapeInit ==
    /\ process = <<>>
    /\ entry = "update_grain_shapes"
    /\ call \in {[phases |-> ph] : ph \in UNION {[1..n -> ShapePhase] : n \in 1..MaxPhases}}
    /\ config = <<>>
    /\ pc = "runs"
    /\ fn = "none"
    /\ Idle

\* one run of the program on the input: the phases as the loop leaves them
RunInitGrainShapes ==
    /\ pc = "runs"
    /\ Len(ret) < 2
    /\ \E draws \in [DOMAIN call.phases -> [1..MaxGrains -> NoiseSet]] :
          ret' = Append(ret, InitGrainShapes(call.phases, draws))
    /\ UNCHANGED <<process, call, entry, config, pc, i_step, fn, raised, calls>>
    /\ UNCHANGED locals

ShapeNext == RunInitGrainShapes

ShapeSpec == ShapeInit /\ [][ShapeNext]_vars

\* C14: two runs on identical input leave identical per-grain state
\* (ellipsoid ratios included).
C14_RunsAgree ==
    (entry = "update_grain_shapes" /\ Len(ret) = 2) => ret[1] = ret[2]

---------------------------------------------------------------------------
(* Tensor utilities (src/vpsc8/tensor.py): voigt                           *)

\* outcome of a library call: a value returned or an exception raised
Ok(v) == [raised |-> "none", value |-> Some(v)]
Fail(e) == [raised |-> e, value |-> Absent]

MaxOf(S) == CHOOSE x \in S : \A y \in S : y <= x

\* an array has at least the given extent along each of its leading axes
RECURSIVE HasShape(_, _)
HasShape(a, dims) ==
    IF dims = <<>> THEN TRUE
    ELSE /\ Len(a) >= Head(dims)
         /\ \A i \in 1..Len(a) : HasShape(a[i], Tail(dims))

\* a table with two index pairs equal: the pair of component 5 repeats that of component 4
IjvRepeated == << <<1, 1>>, <<2, 2>>, <<3, 3>>, <<2, 3>>, <<2, 3>>, <<1, 2>> >>

\* ijv, 1-based
Ijv == << <<1, 1>>, <<2, 2>>, <<3, 3>>, <<2, 3>>, <<1, 3>>, <<1, 2>> >>

\* the components i whose assignments write entry (a, b) of the 3x3 tensor
WritersOf(a, b) == {i \in 1..6 : <<a, b>> \in {Ijv[i], <<Ijv[i][2], Ijv[i][1]>>}}

\* opt == 1: T2[I1, I2] = T1[i]; T2[I2, I1] = T1[i], the last assignment staying
VoigtT1toT2(T1) ==
    [a \in 1..3 |-> [b \in 1..3 |->
        IF WritersOf(a, b) = {} THEN 0 ELSE T1[MaxOf(WritersOf(a, b))]]]

\* opt == 2: T1[i] = T2[I1, I2]
VoigtT2toT1(T2) == [i \in 1..6 |-> T2[Ijv[i][1]][Ijv[i][2]]]

\* opt == 3: the four assignments of C2[i, j], the last pair (i, j) staying
VoigtC2toC4(C2) ==
    [a \in 1..3 |-> [b \in 1..3 |-> [c \in 1..3 |-> [d \in 1..3 |->
        IF WritersOf(a, b) = {} \/ WritersOf(c, d) = {} THEN 0
        ELSE C2[MaxOf(WritersOf(a, b))][MaxOf(WritersOf(c, d))]]]]]

\* opt == 4: C2[i, j] = C4[I1, I2, J1, J2]
VoigtC4toC2(C4) ==
    [i \in 1..6 |-> [j \in 1..6 |-> C4[Ijv[i][1]][Ijv[i][2]][Ijv[j][1]][Ijv[j][2]]]]

\* voigt(..., opt) on the argument its option reads
voigt(arg, opt) ==
    IF opt \notin 1..4 THEN Fail("ValueError")
    ELSE IF arg = Absent THEN Fail("TypeError")
    ELSE LET x == arg[1] IN
         CASE opt = 1 -> IF HasShape(x, <<6>>) THEN Ok(VoigtT1toT2(x)) ELSE Fail("IndexError")
           [] opt = 2 -> IF HasShape(x, <<3, 3>>) THEN Ok(VoigtT2toT1(x)) ELSE Fail("IndexError")
           [] opt = 3 -> IF HasShape(x, <<6, 6>>) THEN Ok(VoigtC2toC4(x)) ELSE Fail("IndexError")
           [] opt = 4 -> IF HasShape(x, <<3, 3, 3, 3>>) THEN Ok(VoigtC4toC2(x))
                         ELSE Fail("IndexError")

---------------------------------------------------------------------------
(* Tensor utilities (src/vpsc8/tensor.py): chg_basis                       *)
(* Its numbers are a + b*sqrt(2) + c*sqrt(3) + d*sqrt(6) with a, b, c, d   *)
(* rational, written <<a, b, c, d>>: sums and products are exact.          *)

K(r) == <<r, Zero, Zero, Zero>>
QZero == K(Zero)
QOne == K(One)

QAdd(x, y) == [c \in 1..4 |-> RAdd(x[c], y[c])]

QMul(x, y) ==
    << RAdd(RAdd(RMul(x[1], y[1]), RMul(RI(2), RMul(x[2], y[2]))),
            RAdd(RMul(RI(3), RMul(x[3], y[3])), RMul(RI(6), RMul(x[4], y[4])))),
       RAdd(RAdd(RMul(x[1], y[2]), RMul(x[2], y[1])),
            RMul(RI(3), RAdd(RMul(x[3], y[4]), RMul(x[4], y[3])))),
       RAdd(RAdd(RMul(x[1], y[3]), RMul(x[3], y[1])),
            RMul(RI(2), RAdd(RMul(x[2], y[4]), RMul(x[4], y[2])))),
       RAdd(RAdd(RMul(x[1], y[4]), RMul(x[4], y[1])),
            RAdd(RMul(x[2], y[3]), RMul(x[3], y[2]))) >>

QNeg(x) == [c \in 1..4 |-> RNeg(x[c])]

\* 1.0 / sqrt2, 1.0 / sqrt3
InvSqrt2 == <<Zero, <<1, 2>>, Zero, Zero>>
InvSqrt3 == <<Zero, Zero, <<1, 3>>, Zero>>

\* sqrt3 written where sqrt6 belongs
InvSqrt6AsSqrt3 == InvSqrt3

\* 1.0 / sqrt6
InvSqrt6 == <<Zero, Zero, Zero, <<1, 6>>>>

\* B[i, j, n] as the assignments leave it, for slice n of an array with at
\* least 6 slices (indices 1-based: slice n is B[:, :, n - 1] of the code)
BasisEntry(i, j, n) ==
    CASE n = 1 /\ <<i, j>> = <<1, 1>> -> QNeg(InvSqrt2)
      [] n = 1 /\ <<i, j>> = <<2, 2>> -> InvSqrt2
      [] n = 2 /\ <<i, j>> \in {<<1, 1>>, <<2, 2>>} -> QNeg(InvSqrt6)
      [] n = 2 /\ <<i, j>> = <<3, 3>> -> QAdd(InvSqrt6, InvSqrt6)
      [] n = 3 /\ <<i, j>> \in {<<2, 3>>, <<3, 2>>} -> InvSqrt2
      [] n = 4 /\ <<i, j>> \in {<<1, 3>>, <<3, 1>>} -> InvSqrt2
      [] n = 5 /\ <<i, j>> \in {<<1, 2>>, <<2, 1>>} -> InvSqrt2
      [] n = 6 /\ i = j -> InvSqrt3
      [] OTHER -> QZero

\* B = np.zeros((3, 3, kdim)) after the assignments, for kdim >= 6
Basis(kdim) == [i \in 1..3 |-> [j \in 1..3 |-> [n \in 1..kdim |-> BasisEntry(i, j, n)]]]

\* sum of f[lo] .. f[hi]
RECURSIVE QSumRange(_, _, _)
QSumRange(f, lo, hi) ==
    IF lo > hi THEN QZero
    ELSE IF lo = hi THEN f[lo]
    ELSE LET mid == (lo + hi) \div 2
         IN  QAdd(QSumRange(f, lo, mid), QSumRange(f, mid + 1, hi))

\* sum of f[1] .. f[n]
QSum(f, n) == QSumRange(f, 1, n)

\* opt == 1: C2[i, j] += CE2[n] * B[i, j, n]
ChgCE2toC2(CE2, kdim) ==
    LET B == Basis(kdim)
    IN  [i \in 1..3 |-> [j \in 1..3 |->
            QSum([n \in 1..kdim |-> QMul(CE2[n], B[i][j][n])], kdim)]]

\* opt == 2: CE2[n] += C2[i, j] * B[i, j, n]
ChgC2toCE2(C2, kdim) ==
    LET B == Basis(kdim)
    IN  [n \in 1..kdim |->
            QSum([e \in 1..9 |->
                    LET i == ((e - 1) \div 3) + 1
                        j == ((e - 1) % 3) + 1
                    IN  QMul(C2[i][j], B[i][j][n])], 9)]

\* opt == 3: C4[i, j, k, l] += CE4[n, m] * B[i, j, n] * B[k, l, m]
ChgCE4toC4(CE4, kdim) ==
    LET B == Basis(kdim)
    IN  [i \in 1..3 |-> [j \in 1..3 |-> [k \in 1..3 |-> [l \in 1..3 |->
            QSum([e \in 1..(kdim * kdim) |->
                    LET n == ((e - 1) \div kdim) + 1
                        m == ((e - 1) % kdim) + 1
                    IN  QMul(QMul(CE4[n][m], B[i][j][n]), B[k][l][m])], kdim * kdim)]]]]

\* opt == 4: CE4[n, m] += C4[i, j, k, l] * B[i, j, n] * B[k, l, m]
ChgC4toCE4(C4, kdim) ==
    LET B == Basis(kdim)
    IN  [n \in 1..kdim |-> [m \in 1..kdim |->
            QSum([e \in 1..81 |->
                    LET i == ((e - 1) \div 27) + 1
                        j == (((e - 1) \div 9) % 3) + 1
                        k == (((e - 1) \div 3) % 3) + 1
                        l == ((e - 1) % 3) + 1
                    IN  QMul(QMul(C4[i][j][k][l], B[i][j][n]), B[k][l][m])], 81)]]

\* chg_basis(..., opt, kdim) on the argument its option reads: the
\* assignments to B[..., 5] fail on an array with fewer than 6 slices
chg_basis(arg, opt, kdim) ==
    IF kdim < 6 THEN Fail("IndexError")
    ELSE IF opt = 0 THEN Ok(Basis(kdim))
    ELSE IF opt \notin 1..4 THEN Fail("ValueError")
    ELSE IF arg = Absent THEN Fail("ValueError")
    ELSE LET x == arg[1] IN
         CASE opt = 1 -> IF HasShape(x, <<kdim>>) THEN Ok(ChgCE2toC2(x, kdim))
                         ELSE Fail("IndexError")
           [] opt = 2 -> IF HasShape(x, <<3, 3>>) THEN Ok(ChgC2toCE2(x, kdim))
                         ELSE Fail("IndexError")
           [] opt = 3 -> IF HasShape(x, <<kdim, kdim>>) THEN Ok(ChgCE4toC4(x, kdim))
                         ELSE Fail("IndexError")
           [] opt = 4 -> IF HasShape(x, <<3, 3, 3, 3>>) THEN Ok(ChgC4toCE4(x, kdim))
                         ELSE Fail("IndexError")

---------------------------------------------------------------------------
(* Tensor utilities (src/vpsc8/tensor.py): lu_inverse                      *)
(* Entries are exact rationals. np.linalg.inv reports a singular matrix    *)
(* only when a pivot of its LU factorisation is exactly zero; where the    *)
(* factorisation rounds, a pivot that is zero in exact arithmetic may come *)
(* out zero or not, and both outcomes are kept.                            *)

RAbs(a) == <<Abs(a[1]), a[2]>>

RECURSIVE IsPowerOfTwo(_)
IsPowerOfTwo(d) == d = 1 \/ (d > 1 /\ d % 2 = 0 /\ IsPowerOfTwo(d \div 2))

\* a value binary floating point holds without rounding
IsDyadic(a) == IsFinite(a) /\ IsPowerOfTwo(a[2])

AllDyadic(M) == \A r \in DOMAIN M : \A k \in DOMAIN M[r] : IsDyadic(M[r][k])

IsSquare(A) == Len(A) >= 1 /\ \A r \in DOMAIN A : Len(A[r]) = Len(A)

\* amax = np.max(np.abs(A))
Amax(A) ==
    LET E == {RAbs(A[r][k]) : r \in DOMAIN A, k \in DOMAIN A[1]}
    IN  CHOOSE x \in E : \A y \in E : ~RLess(x, y)

MatScale(A, c) == [r \in DOMAIN A |-> [k \in DOMAIN A[r] |-> RMul(A[r][k], c)]]
MatDivide(A, c) == [r \in DOMAIN A |-> [k \in DOMAIN A[r] |-> RDiv(A[r][k], c)]]

\* the result multiplied by amax
RescaleByProduct(Ainv, amax) == MatScale(Ainv, amax)

\* return Ainv / amax
Rescale(Ainv, amax) == MatDivide(Ainv, amax)

\* [A | I]
Augment(A) ==
    LET n == Len(A)
    IN  [r \in 1..n |-> [k \in 1..(2 * n) |->
            IF k <= n THEN A[r][k] ELSE IF k - n = r THEN One ELSE Zero]]

\* partial pivoting: the first row from c on with the largest magnitude in column c
PivotRow(M, c, n) ==
    CHOOSE p \in c..n :
        /\ \A q \in c..n : ~RLess(RAbs(M[p][c]), RAbs(M[q][c]))
        /\ \A q \in c..(p - 1) : RLess(RAbs(M[q][c]), RAbs(M[p][c]))

SwapRows(M, a, b) ==
    [r \in DOMAIN M |-> IF r = a THEN M[b] ELSE IF r = b THEN M[a] ELSE M[r]]

\* forward elimination from column c on; exact tells whether every number so
\* far was held without rounding
RECURSIVE Forward(_, _, _, _)
Forward(M, c, n, exact) ==
    IF c > n THEN [singular |-> FALSE, exact |-> exact, M |-> M]
    ELSE LET S == SwapRows(M, c, PivotRow(M, c, n))
         IN  IF S[c][c] = Zero THEN [singular |-> TRUE, exact |-> exact, M |-> S]
             ELSE LET f == [r \in 1..n |-> RDiv(S[r][c], S[c][c])]
                      N == [r \in 1..n |->
                              IF r <= c THEN S[r]
                              ELSE [k \in 1..(2 * n) |-> RSub(S[r][k], RMul(f[r], S[c][k]))]]
                  IN  Forward(N, c + 1, n,
                              exact /\ AllDyadic(N) /\ \A r \in (c + 1)..n : IsDyadic(f[r]))

\* back substitution from row c up
RECURSIVE Backward(_, _, _)
Backward(M, c, n) ==
    IF c = 0 THEN M
    ELSE LET rowc == [k \in 1..(2 * n) |-> RDiv(M[c][k], M[c][c])]
             N == [r \in 1..n |->
                     IF r = c THEN rowc
                     ELSE IF r > c THEN M[r]
                     ELSE [k \in 1..(2 * n) |-> RSub(M[r][k], RMul(M[r][c], rowc[k]))]]
         IN  Backward(N, c - 1, n)

\* a matrix whose entries rounding errors decide
RoundingDecided(n) == [r \in 1..n |-> [k \in 1..n |-> NaN]]

\* np.linalg.inv(A_norm): the outcomes it can have
LinalgInv(A) ==
    IF ~IsSquare(A) THEN {Fail("LinAlgError")}
    ELSE LET n == Len(A)
             fw == Forward(Augment(A), 1, n, AllDyadic(A))
         IN  IF fw.singular
             THEN IF fw.exact THEN {Fail("LinAlgError")}
                  ELSE {Fail("LinAlgError"), Ok(RoundingDecided(n))}
             ELSE LET R == Backward(fw.M, n, n)
                  IN  {Ok([r \in 1..n |-> [k \in 1..n |-> R[r][n + k]]])}

\* lu_inverse(A): the outcomes it can have
lu_inverse(A) ==
    LET amax == Amax(A)
    IN  IF amax = Zero THEN {Fail("LinAlgError")}
        ELSE {IF o.raised = "none" THEN Ok(Rescale(o.value[1], amax)) ELSE o :
                 o \in LinalgInv(MatDivide(A, amax))}

---------------------------------------------------------------------------
(* The tensor utilities called on their own                                *)

SymT(v) == << <<v[1], v[6], v[5]>>, <<v[6], v[2], v[4]>>, <<v[5], v[4], v[3]>> >>

\* number of the unordered index pair {a, b}
PairIndex(a, b) ==
    CASE a = b -> a
      [] {a, b} = {2, 3} -> 4
      [] {a, b} = {1, 3} -> 5
      [] {a, b} = {1, 2} -> 6

SquareInts(n) == [i \in 1..n |-> [j \in 1..n |-> n * (i - 1) + j]]

\* a 4th-order tensor with both minor symmetries and 36 distinct values
MinorSymC4 ==
    [a \in 1..3 |-> [b \in 1..3 |-> [c \in 1..3 |-> [d \in 1..3 |->
        6 * (PairIndex(a, b) - 1) + PairIndex(c, d)]]]]

\* a 4th-order tensor with 81 distinct values
PlainC4(n) ==
    [a \in 1..n |-> [b \in 1..n |-> [c \in 1..n |-> [d \in 1..n |->
        27 * (a - 1) + 9 * (b - 1) + 3 * (c - 1) + d]]]]

BitVectors == [1..6 -> {0, 1}]

\* calls of voigt, by the option
VoigtCalls(opt) ==
    CASE opt = 1 ->
           {[fn |-> "voigt", opt |-> 1, kdim |-> 6, arg |-> a] :
               a \in {Some(v) : v \in BitVectors \cup {<<1, 2, 3, 4, 5, 6>>,
                                                      <<1, 2, 3, 4, 5, 6, 7>>,
                                                      <<1, 2, 3, 4, 5>>}} \cup {Absent}}
      [] opt = 2 ->
           {[fn |-> "voigt", opt |-> 2, kdim |-> 6, arg |-> Some(t)] :
               t \in {SymT(v) : v \in BitVectors \cup {<<1, 2, 3, 4, 5, 6>>}}
                     \cup {SquareInts(3), SquareInts(2), SquareInts(4)}}
      [] opt = 3 ->
           {[fn |-> "voigt", opt |-> 3, kdim |-> 6, arg |-> Some(SquareInts(n))] :
               n \in {5, 6, 7}}
      [] opt = 4 ->
           {[fn |-> "voigt", opt |-> 4, kdim |-> 6, arg |-> Some(c)] :
               c \in {MinorSymC4, PlainC4(3), PlainC4(2)}}
      [] OTHER ->
           {[fn |-> "voigt", opt |-> opt, kdim |-> 6, arg |-> Absent]}

LiftVec(v) == [i \in DOMAIN v |-> K(RI(v[i]))]
LiftMat(m) == [i \in DOMAIN m |-> LiftVec(m[i])]
LiftC4(c) == [a \in DOMAIN c |-> [b \in DOMAIN c[a] |-> LiftMat(c[a][b])]]

UnitVec(n, len) == [i \in 1..len |-> IF i = n THEN 1 ELSE 0]
IdentityInts(n) == [i \in 1..n |-> UnitVec(i, n)]

KdimSet == {5, 6, 7}

\* calls of chg_basis, by the option
ChgBasisCalls(opt) ==
    CASE opt = 1 ->
           {[fn |-> "chg_basis", opt |-> 1, kdim |-> k, arg |-> a] :
               k \in KdimSet,
               a \in {Some(LiftVec(v)) :
                        v \in {UnitVec(n, 6) : n \in 1..6}
                              \cup {<<1, 2, 3, 4, 5, 6>>, <<1, 2, 3, 4, 5, 6, 7>>,
                                    <<1, 2, 3, 4, 5>>}} \cup {Absent}}
      [] opt = 2 ->
           {[fn |-> "chg_basis", opt |-> 2, kdim |-> k, arg |-> Some(LiftMat(t))] :
               k \in KdimSet,
               t \in {IdentityInts(3), SymT(<<1, 2, 3, 4, 5, 6>>), SquareInts(2),
                      SquareInts(4)}}
      [] opt = 3 ->
           {[fn |-> "chg_basis", opt |-> 3, kdim |-> k, arg |-> Some(LiftMat(m))] :
               k \in KdimSet, m \in {IdentityInts(5), IdentityInts(6), SquareInts(7)}}
      [] opt = 4 ->
           {[fn |-> "chg_basis", opt |-> 4, kdim |-> k, arg |-> Some(LiftC4(c))] :
               k \in KdimSet, c \in {MinorSymC4, PlainC4(2)}}
      [] OTHER ->
           {[fn |-> "chg_basis", opt |-> opt, kdim |-> k, arg |-> Absent] : k \in KdimSet}

\* rows the matrices passed to lu_inverse are made of
LuRows(n) ==
    CASE n = 1 -> {<<0>>, <<1>>, <<2>>, <<-4>>}
      [] n = 2 -> {<<1, 2>>, <<3, 6>>, <<0, 1>>, <<0, 0>>, <<2, -1>>}
      [] n = 3 -> {<<1, 2, 0>>, <<0, 1, 2>>, <<1, 3, 2>>, <<1, 0, 0>>, <<0, 0, 0>>}

\* powers of two the matrices are scaled by
LuScales == {<<1, 8>>, One, RI(8)}

LuMatrices ==
    [1..3 -> LuRows(3)] \cup [1..2 -> LuRows(2)] \cup [1..1 -> LuRows(1)]
    \cup {<< <<1, 2, 0>>, <<0, 1, 2>> >>}

LuInverseCalls ==
    {[fn |-> "lu_inverse", opt |-> 0, kdim |-> Len(m),
      arg |-> Some(MatScale([r \in DOMAIN m |-> [k \in DOMAIN m[r] |-> RI(m[r][k])]], c))] :
        m \in LuMatrices, c \in LuScales}

TensorInit ==
    /\ process = <<>>
    /\ \/ \E opt \in 1..5 : call \in VoigtCalls(opt)
       \/ \E opt \in {0, 1, 2, 3, 4, 9} : call \in ChgBasisCalls(opt)
       \/ call \in LuInverseCalls
    /\ entry = call.fn
    /\ config = <<>>
    /\ pc = "call"
    /\ fn = "none"
    /\ Idle

\* the caller receives the outcome o of the call
Receive(o, at) ==
    /\ ret' = o.value
    /\ raised' = o.raised
    /\ pc' = IF o.raised = "none" THEN at ELSE "raised"
    /\ UNCHANGED <<process, call, entry, config, i_step, fn, calls>>
    /\ UNCHANGED locals

VoigtCall ==
    /\ pc = "call"
    /\ entry = "voigt"
    /\ Receive(voigt(call.arg, call.opt), "returned")

\* the option that converts back
InverseOpt(opt) == CASE opt = 1 -> 2 [] opt = 2 -> 1 [] opt = 3 -> 4 [] opt = 4 -> 3

\* the result is passed to the conversion back
VoigtBack ==
    /\ pc = "returned"
    /\ entry = "voigt"
    /\ Receive(voigt(ret, InverseOpt(call.opt)), "back")

ChgBasisCall ==
    /\ pc = "call"
    /\ entry = "chg_basis"
    /\ Receive(chg_basis(call.arg, call.opt, call.kdim), "returned")

LuInverseCall ==
    /\ pc = "call"
    /\ entry = "lu_inverse"
    /\ \E o \in lu_inverse(call.arg[1]) : Receive(o, "returned")

TensorNext ==
    \/ VoigtCall
    \/ VoigtBack
    \/ ChgBasisCall
    \/ LuInverseCall

TensorSpec == TensorInit /\ [][TensorNext]_vars

---------------------------------------------------------------------------
(* Properties of the tensor utilities                                      *)

\* an array has exactly the given extents
RECURSIVE ShapeIs(_, _)
ShapeIs(a, dims) ==
    IF dims = <<>> THEN TRUE
    ELSE /\ Len(a) = Head(dims)
         /\ \A i \in 1..Len(a) : ShapeIs(a[i], Tail(dims))

LibraryDone == pc \in {"returned", "back", "raised"}

\* the argument is what the conversion is defined on: a 6-vector, a symmetric
\* 3x3 tensor, a 6x6 matrix, a 4th-order tensor with both minor symmetries
VoigtDomain(opt, x) ==
    CASE opt = 1 -> ShapeIs(x, <<6>>)
      [] opt = 2 -> ShapeIs(x, <<3, 3>>) /\ \A i, j \in 1..3 : x[i][j] = x[j][i]
      [] opt = 3 -> ShapeIs(x, <<6, 6>>)
      [] opt = 4 -> /\ ShapeIs(x, <<3, 3, 3, 3>>)
                    /\ \A i, j, k, l \in 1..3 : /\ x[i][j][k][l] = x[j][i][k][l]
                                                /\ x[i][j][k][l] = x[i][j][l][k]
      [] OTHER -> FALSE

\* C15: the voigt conversions are mutually inverse: a conversion followed by
\* the conversion back reproduces a 6-vector, a symmetric 3x3 tensor, a 6x6
\* matrix and a 4th-order tensor with both minor symmetries.
C15_VoigtRoundTrip ==
    ( /\ entry = "voigt"
      /\ LibraryDone
      /\ call.arg # Absent
      /\ VoigtDomain(call.opt, call.arg[1]) )
    => (pc # "raised" /\ (pc = "back" => ret = call.arg))

C15_Witness ==
    /\ entry = "voigt"
    /\ pc = "back"
    /\ call.opt = 4
    /\ call.arg = Some(MinorSymC4)
    /\ ret = call.arg

\* sum over i, j of B[i, j, n] * B[i, j, m]
Inner(B, n, m) ==
    QSum([e \in 1..9 |->
            LET i == ((e - 1) \div 3) + 1
                j == ((e - 1) % 3) + 1
            IN  QMul(B[i][j][n], B[i][j][m])], 9)

BasisReturned ==
    entry = "chg_basis" /\ pc = "returned" /\ call.opt = 0 /\ call.kdim = 6

\* C16: the basis tensors chg_basis builds for kdim = 6 are orthonormal and
\* each of them is symmetric.
C16_BasisOrthonormal ==
    BasisReturned =>
        /\ \A n, m \in 1..6 : Inner(ret[1], n, m) = (IF n = m THEN QOne ELSE QZero)
        /\ \A n \in 1..6 : \A i, j \in 1..3 : ret[1][i][j][n] = ret[1][j][i][n]

C16_Witness ==
    /\ BasisReturned
    /\ ShapeIs(ret[1], <<3, 3, 6>>)
    /\ ret[1][3][3][2] # QZero

\* C17: chg_basis called with kdim = 5 and opt in 1..4 on an argument returns
\* the converted tensor and does not fail.
C17_FiveDimensionalBasis ==
    ( /\ entry = "chg_basis"
      /\ LibraryDone
      /\ call.kdim = 5
      /\ call.opt \in 1..4
      /\ call.arg # Absent )
    => (pc = "returned" /\ raised = "none" /\ ret # Absent)

\* the argument's extents are not those the conversion is for
DimensionMismatch ==
    /\ call.arg # Absent
    /\ \/ /\ entry = "chg_basis"
          /\ CASE call.opt = 1 -> ~ShapeIs(call.arg[1], <<call.kdim>>)
               [] call.opt = 2 -> ~ShapeIs(call.arg[1], <<3, 3>>)
               [] call.opt = 3 -> ~ShapeIs(call.arg[1], <<call.kdim, call.kdim>>)
               [] call.opt = 4 -> ~ShapeIs(call.arg[1], <<3, 3, 3, 3>>)
               [] OTHER -> FALSE
       \/ /\ entry = "voigt"
          /\ CASE call.opt = 1 -> ~ShapeIs(call.arg[1], <<6>>)
               [] call.opt = 2 -> ~ShapeIs(call.arg[1], <<3, 3>>)
               [] call.opt = 3 -> ~ShapeIs(call.arg[1], <<6, 6>>)
               [] call.opt = 4 -> ~ShapeIs(call.arg[1], <<3, 3, 3, 3>>)
               [] OTHER -> FALSE

\* C18: a conversion called with an argument whose dimension does not match
\* fails with an error and returns no result.
C18_MismatchFails ==
    (LibraryDone /\ DimensionMismatch) => (pc = "raised" /\ raised # "none" /\ ret = Absent)

\* the matrix without row 1 and column k
Minor1(A, k) ==
    [r \in 1..(Len(A) - 1) |-> [c \in 1..(Len(A) - 1) |->
        A[r + 1][IF c < k THEN c ELSE c + 1]]]

RECURSIVE Det(_)
Det(A) ==
    IF Len(A) = 1 THEN A[1][1]
    ELSE LET term(k) == RMul(A[1][k], Det(Minor1(A, k)))
             sum[k \in 0..Len(A)] ==
                IF k = 0 THEN Zero
                ELSE IF k % 2 = 1 THEN RAdd(sum[k - 1], term(k))
                ELSE RSub(sum[k - 1], term(k))
         IN  sum[Len(A)]

MatMul(X, Y) ==
    LET n == Len(X)
        dot[r \in 1..n, c \in 1..n] ==
            LET acc[k \in 0..n] ==
                    IF k = 0 THEN Zero ELSE RAdd(acc[k - 1], RMul(X[r][k], Y[k][c]))
            IN  acc[n]
    IN  [r \in 1..n |-> [c \in 1..n |-> dot[r, c]]]

IdentityR(n) == [r \in 1..n |-> [c \in 1..n |-> IF r = c THEN One ELSE Zero]]

LuDone == entry = "lu_inverse" /\ LibraryDone

\* the argument has no inverse
Singular(A) == ~IsSquare(A) \/ Amax(A) = Zero \/ Det(A) = Zero

\* C19: lu_inverse fails with the singular-matrix error and returns no
\* matrix whenever its argument is singular (largest entry zero included).
C19_SingularFails ==
    (LuDone /\ Singular(call.arg[1])) => (raised = "LinAlgError" /\ ret = Absent)

\* C20: for an invertible square matrix A, lu_inverse(A) multiplied by A is
\* the identity, whatever the magnitude of the largest entry.
C20_InverseOfInvertible ==
    (LuDone /\ ~Singular(call.arg[1])) =>
        /\ pc = "returned"
        /\ MatMul(ret[1], call.arg[1]) = IdentityR(Len(call.arg[1]))
        /\ MatMul(call.arg[1], ret[1]) = IdentityR(Len(call.arg[1]))

C20_Witness ==
    /\ LuDone
    /\ pc = "returned"
    /\ Len(call.arg[1]) = 3
    /\ Amax(call.arg[1]) = RI(24)
    /\ MatMul(ret[1], call.arg[1]) = IdentityR(3)
    /\ ret[1][1][1] # Zero

---------------------------------------------------------------------------
(* run_vpsc8 and the file selection of main_simulation (src/vpsc8/main.py) *)

\* directories that exist, and one that does not
Dirs == {"/home", "/runs"}
MissingDir == "/gone"

\* names of main input files
Names == {"vpsc8.in", "ex02.in"}

\* a path: its directory part (Absent for a bare file name) and its base name
Path(d, b) == [dir |-> d, base |-> b]

\* os.path.dirname(os.path.abspath(p)) in the working directory cwd
DirOfAbspath(p, cwd) == Get(p.dir, cwd)

\* os.path.basename(p)
Basename(p) == p.base

\* sys.argv of the process: the package's own command, a test runner, a
\* command line naming an input file
ArgvSet == { <<"vpsc8">>, <<"pytest", "tests">>, <<"vpsc8", "ex02.in">> }

\* os.environ.get("VPSC_INPUT")
EnvironSet == {Absent, Some("ex02.in"), Some("env.in")}

\* default_input: "vpsc8.in" if it exists in the working directory, else the argument
DefaultInput(input_file, cwd, files) ==
    IF <<cwd, "vpsc8.in">> \in files THEN "vpsc8.in" ELSE input_file

\* main_input: sys.argv[1] if there is one, else VPSC_INPUT, else the default
MainInput(input_file, argv, environ, cwd, files) ==
    IF Len(argv) > 1 THEN argv[2]
    ELSE Get(environ, DefaultInput(input_file, cwd, files))

\* the directory the finally clause of run_vpsc8 changes to
StayInWorkDir(original_dir, work_dir) == work_dir

RestoredDir(original_dir, work_dir) == original_dir

\* the lines of a well-formed main input file
MainInputFile ==
    [nph |-> 1, wph_tokens |-> <<One>>,
     precision_tokens |-> <<<<1, 1000>>, <<1, 1000>>, <<1, 1000>>, <<1, 100>>>>,
     itmax_tokens |-> <<100, 100, 25>>,
     elastic_matrix |-> Identity6]

RunnerInit ==
    /\ process \in {[cwd |-> d, argv |-> a, environ |-> e, files |-> fs, dirs |-> Dirs,
                     output_dirs |-> {}, opened |-> Absent] :
                       d \in Dirs, a \in ArgvSet, e \in EnvironSet,
                       fs \in SUBSET (Dirs \X Names)}
    /\ entry = "run_vpsc8"
    /\ call \in {[input_file |-> Path(d, b), work_dir |-> w,
                  original_dir |-> Absent, main_input |-> Absent] :
                    d \in {Absent} \cup {Some(x) : x \in Dirs}, b \in Names,
                    w \in {Absent} \cup {Some(x) : x \in Dirs \cup {MissingDir}}}
    /\ config = <<>>
    /\ pc = "runner_entry"
    /\ fn = "none"
    /\ Idle

\* if work_dir is None: work_dir = dirname(abspath(input_file)); original_dir = os.getcwd()
RunVpsc8Enter ==
    /\ entry = "run_vpsc8"
    /\ pc = "runner_entry"
    /\ call' = [call EXCEPT
                  !.work_dir = Some(Get(call.work_dir, DirOfAbspath(call.input_file, process.cwd))),
                  !.original_dir = Some(process.cwd)]
    /\ pc' = "chdir"
    /\ UNCHANGED <<process, entry, config, i_step, fn, ret, raised, calls>>
    /\ UNCHANGED locals

\* try: os.chdir(work_dir)
Chdir ==
    /\ entry = "run_vpsc8"
    /\ pc = "chdir"
    /\ IF call.work_dir[1] \in process.dirs
       THEN /\ process' = [process EXCEPT !.cwd = call.work_dir[1]]
            /\ pc' = "select"
            /\ UNCHANGED raised
       ELSE /\ raised' = "FileNotFoundError"
            /\ pc' = "finally"
            /\ UNCHANGED process
    /\ UNCHANGED <<call, entry, config, i_step, fn, ret, calls>>
    /\ UNCHANGED locals

\* main_simulation(os.path.basename(input_file)): the main input is chosen
\* and the output directory is made
SelectMainInput ==
    /\ entry = "run_vpsc8"
    /\ pc = "select"
    /\ call' = [call EXCEPT !.main_input =
                  Some(MainInput(Basename(call.input_file), process.argv, process.environ,
                                 process.cwd, process.files))]
    /\ process' = [process EXCEPT !.output_dirs = @ \cup {process.cwd}]
    /\ pc' = "read_main"
    /\ UNCHANGED <<entry, config, i_step, fn, ret, raised, calls>>
    /\ UNCHANGED locals

\* config = read_vpsc_input(files["main_input"], f_run_log)
ReadMainInput ==
    /\ entry = "run_vpsc8"
    /\ pc = "read_main"
    /\ process' = [process EXCEPT !.opened = Some(<<process.cwd, call.main_input[1]>>)]
    /\ IF <<process.cwd, call.main_input[1]>> \in process.files
       THEN /\ config' = ReadResult(MainInputFile)
            /\ pc' = "simulate"
            /\ UNCHANGED raised
       ELSE /\ raised' = "FileNotFoundError"
            /\ pc' = "finally"
            /\ UNCHANGED config
    /\ UNCHANGED <<call, entry, i_step, fn, ret, calls>>
    /\ UNCHANGED locals

\* the rest of main_simulation: it returns config, or an exception leaves it
Simulate ==
    /\ entry = "run_vpsc8"
    /\ pc = "simulate"
    /\ \/ /\ config' = [config EXCEPT !.epsacu = Some(<<>>)]
          /\ ret' = Some(config')
          /\ UNCHANGED raised
       \/ /\ raised' \in {"ValueError", "IndexError"}
          /\ UNCHANGED <<config, ret>>
    /\ pc' = "finally"
    /\ UNCHANGED <<process, call, entry, i_step, fn, calls>>
    /\ UNCHANGED locals

\* finally: os.chdir(original_dir)
Finally ==
    /\ entry = "run_vpsc8"
    /\ pc = "finally"
    /\ process' = [process EXCEPT !.cwd = RestoredDir(call.original_dir[1], call.work_dir[1])]
    /\ pc' = IF raised = "none" THEN "returned" ELSE "raised"
    /\ UNCHANGED <<call, entry, config, i_step, fn, ret, raised, calls>>
    /\ UNCHANGED locals

RunnerNext ==
    \/ RunVpsc8Enter
    \/ Chdir
    \/ SelectMainInput
    \/ ReadMainInput
    \/ Simulate
    \/ Finally

RunnerSpec == RunnerInit /\ [][RunnerNext]_vars

\* C21: the main input file main_simulation opens is the base name of the
\* input_file argument of run_vpsc8 inside work_dir, whatever the command
\* line, the VPSC_INPUT variable and the files of work_dir are.
C21_OpensGivenInput ==
    (entry = "run_vpsc8" /\ process.opened # Absent) =>
        process.opened = Some(<<call.work_dir[1], Basename(call.input_file)>>)

\* run_vpsc8 returned to its caller
RunnerReturned == entry = "run_vpsc8" /\ pc = "returned"

\* run_vpsc8 returned or raised
RunnerDone == entry = "run_vpsc8" /\ pc \in {"returned", "raised"}

\* C23: after a run that completes without error, run_vpsc8 returns a
\* configuration dictionary that is not None and holds the key "nelem".
C23_ReturnsNelem ==
    RunnerReturned => (ret # Absent /\ "nelem" \in DOMAIN ret[1])

\* C27: after run_vpsc8 returns or raises, wherever the simulation failed,
\* the working directory is the one in effect when it was called.
C27_WorkingDirectoryRestored ==
    RunnerDone => process.cwd = call.original_dir[1]

\* the simulation failed after the main input was read, in a working
\* directory other than the caller's
C27_Witness ==
    /\ RunnerDone
    /\ pc = "raised"
    /\ config # <<>>
    /\ call.work_dir[1] # call.original_dir[1]
    /\ process.cwd = call.original_dir[1]

---------------------------------------------------------------------------
(* The deformation-step loop of the two drivers: main_simulation of        *)
(* src/vpsc8/main.py (the actions above) and main of src/src/main.py       *)

\* switches of the main input file, a negative writing interval included
StepFlagCases ==
    FlagCases \cup
    { [iupdori |-> 0, iupdshp |-> 0, iupdhar |-> 0, ntwmod |-> 0, nwrite |-> -1, isave |-> -1] }

\* the dictionary at the head of the step loop; eps is the "epsacu" entry,
\* which only main_simulation stores
StepConfigs(eps) ==
    {MkConfig(ph, load, flags, inter, Absent, Absent, eps) :
        ph \in PhasesSet({1}),
        load \in {l \in LoadCases : l.applied_udot # Some(Zeros33)},
        flags \in StepFlagCases, inter \in InteractionSet}

StepInit ==
    /\ process = <<>>
    /\ call = <<>>
    /\ entry \in {"main_simulation", "main"}
    /\ config \in (IF entry = "main_simulation" THEN StepConfigs(Some(<<>>))
                   ELSE StepConfigs(Absent))
    /\ pc = "step_head"
    /\ fn = "none"
    /\ Idle

\* main, monotonic loading: num_steps = config.get("nsteps", 0) + 1
ScriptNumSteps == Get(config.nsteps, 0) + 1

\* for i_step in range(1, num_steps + 1): the core calculation of the step is called
ScriptStep ==
    /\ entry = "main"
    /\ pc = "step_head"
    /\ i_step < ScriptNumSteps
    /\ i_step' = i_step + 1
    /\ fn' = CoreOf(config.interaction)
    /\ pc' = EntryOf(fn')
    /\ calls' = <<fn'>>
    /\ ret' = <<>>
    /\ UNCHANGED <<process, call, entry, config, raised>>
    /\ UNCHANGED locals

ScriptEnd ==
    /\ entry = "main"
    /\ pc = "step_head"
    /\ i_step >= ScriptNumSteps
    /\ pc' = "finished"
    /\ UNCHANGED <<process, call, entry, config, i_step, fn, ret, raised, calls>>
    /\ UNCHANGED locals

\* if config.get("iupdori") == 1: config = update_orientation(config, dbar, time_incr). main binds
\* no name time_incr, so evaluating the arguments raises NameError before the call
ScriptUpdateOrientation ==
    /\ entry = "main"
    /\ pc = "returned"
    /\ IF config.iupdori = 1
       THEN /\ raised' = "NameError"
            /\ pc' = "raised"
       ELSE /\ pc' = "upd_har"
            /\ UNCHANGED raised
    /\ UNCHANGED <<process, call, entry, config, i_step, fn, ret, calls>>
    /\ UNCHANGED locals

\* if config.get("iupdhar") == 1: update_hardening(config, dbar, time_incr), likewise
ScriptUpdateHardening ==
    /\ entry = "main"
    /\ pc = "upd_har"
    /\ IF config.iupdhar = 1
       THEN /\ raised' = "NameError"
            /\ pc' = "raised"
       ELSE /\ pc' = "upd_shp"
            /\ UNCHANGED raised
    /\ UNCHANGED <<process, call, entry, config, i_step, fn, ret, calls>>
    /\ UNCHANGED locals

\* if config.get("iupdshp") == 1: update_shape(config, dbar, time_incr), likewise
ScriptUpdateShape ==
    /\ entry = "main"
    /\ pc = "upd_shp"
    /\ IF config.iupdshp = 1
       THEN /\ raised' = "NameError"
            /\ pc' = "raised"
       ELSE /\ pc' = "upd_twin"
            /\ UNCHANGED raised
    /\ UNCHANGED <<process, call, entry, config, i_step, fn, ret, calls>>
    /\ UNCHANGED locals

\* if config.get("ntwmod", 0) > 0: update_twinning
ScriptUpdateTwinning ==
    /\ entry = "main"
    /\ pc = "upd_twin"
    /\ calls' = CallIf(config.ntwmod > 0, "update_twinning")
    /\ pc' = "wr_tex"
    /\ UNCHANGED <<process, call, entry, config, i_step, fn, ret, raised>>
    /\ UNCHANGED locals

\* a % b == 0 in Python, for b # 0 of either sign
Divides(b, a) == a % Abs(b) = 0

\* if i_step % config.get("nwrite", 1) == 0: write_texture
ScriptWriteTexture ==
    /\ entry = "main"
    /\ pc = "wr_tex"
    /\ IF config.nwrite = 0
       THEN /\ raised' = "ZeroDivisionError"
            /\ pc' = "raised"
            /\ UNCHANGED calls
       ELSE /\ calls' = CallIf(Divides(config.nwrite, i_step), "write_texture")
            /\ pc' = "wr_pm"
            /\ UNCHANGED raised
    /\ UNCHANGED <<process, call, entry, config, i_step, fn, ret>>
    /\ UNCHANGED locals

\* if i_step == config.get("isave", -1): write_postmortem; the step ends
ScriptWritePostmortem ==
    /\ entry = "main"
    /\ pc = "wr_pm"
    /\ calls' = CallIf(i_step = config.isave, "write_postmortem")
    /\ pc' = "step_head"
    /\ UNCHANGED <<process, call, entry, config, i_step, fn, ret, raised>>
    /\ UNCHANGED locals

StepNext ==
    \/ DriverStep
    \/ DriverEnd
    \/ DriverOutput
    \/ UpdateOrientation
    \/ UpdateHardening
    \/ UpdateShape
    \/ UpdateTwinning
    \/ WriteTexture
    \/ WritePostmortem
    \/ ScriptStep
    \/ ScriptEnd
    \/ ScriptUpdateOrientation
    \/ ScriptUpdateHardening
    \/ ScriptUpdateShape
    \/ ScriptUpdateTwinning
    \/ ScriptWriteTexture
    \/ ScriptWritePostmortem
    \/ RunElastic
    \/ RunVpfc
    \/ VpscEnter
    \/ OuterBegin
    \/ GrainSolve
    \/ AverageStep
    \/ ConvCheck
    \/ VpscExit

StepSpec == StepInit /\ [][StepNext]_vars

\* <<name>> if the condition holds, else nothing
Opt(cond, name) == IF cond THEN <<name>> ELSE <<>>

\* the collaborators of step number step, in the order C24 gives
StepOrder(cfg, step) ==
    <<CoreOf(cfg.interaction)>>
    \o Opt(cfg.iupdori = 1, "update_orientation")
    \o Opt(cfg.iupdhar = 1, "update_hardening")
    \o Opt(cfg.iupdshp = 1, "update_shape")
    \o Opt(cfg.ntwmod > 0, "update_twinning")
    \o Opt(cfg.nwrite > 0 /\ step % cfg.nwrite = 0, "write_texture")
    \o Opt(step = cfg.isave, "write_postmortem")

IsPrefix(s, t) == Len(s) <= Len(t) /\ \A i \in DOMAIN s : s[i] = t[i]

\* a step of either driver is over: the loop is back at its head, left, or
\* was abandoned with an exception
StepOver == i_step >= 1 /\ pc \in {"step_head", "finished", "raised"}

\* C24: within each step the driver runs the core calculation selected by
\* "interaction", then update_orientation iff iupdori = 1, update_hardening
\* iff iupdhar = 1, update_shape iff iupdshp = 1, update_twinning iff
\* ntwmod > 0, write_texture iff nwrite > 0 and nwrite divides the step
\* number, write_postmortem iff the step number equals isave, in this order.
C24_StepOrder ==
    (entry \in {"main_simulation", "main"} /\ i_step >= 1) =>
        /\ IsPrefix(calls, StepOrder(config, i_step))
        /\ StepOver => calls = StepOrder(config, i_step)

---------------------------------------------------------------------------
(* Irradiation growth at the head of a step (src/vpsc8/main.py 293-322)    *)

\* attribute names of the built-in types dict and list that matter here
DictAttributes == {"get", "items", "keys", "values", "update", "pop", "setdefault"}
ListAttributes == {"append", "extend", "index", "count", "pop", "sort"}

\* hasattr(obj, name) for an object whose type has the attributes attrs;
\* the keys a dictionary holds are items, not attributes
HasAttr(attrs, name) == name \in attrs

M33Add(a, b) == [i \in 1..3 |-> [j \in 1..3 |-> RAdd(a[i][j], b[i][j])]]
M33Scale(a, c) == [i \in 1..3 |-> [j \in 1..3 |-> RMul(a[i][j], c)]]

\* growth rate tensors of a crystal file
GrowthTensors ==
    { Mat33(<<One, Zero, Zero>>, <<Zero, One, Zero>>, <<Zero, Zero, RI(-2)>>),
      Mat33(<<RI(3), Zero, Zero>>, <<Zero, RI(-1), Zero>>, <<Zero, Zero, RI(-2)>>) }

\* a phase as read_vpsc_input stores it, with the growth parameters of its crystal file
GrowthPhase(i, law, tensor) ==
    [phase_id |-> i, weight |-> One, ngrains |-> 1, elastic_matrix |-> Identity6,
     constitutive_law |-> law, growth_rate_tensor |-> tensor]

GrowthPhaseLists ==
    UNION { { [i \in 1..n |-> GrowthPhase(i, law[i], tensor[i])] :
                law \in [1..n -> {0, 30}],
                tensor \in [1..n -> {Absent} \cup {Some(g) : g \in GrowthTensors}] } :
            n \in 1..MaxPhases }

GrowthConfigs ==
    { MkConfig(ph, load, NoFlags, inter, Absent, Absent, Some(<<>>))
        @@ [total_growth_strain |-> Absent] :
        ph \in GrowthPhaseLists,
        load \in {l \in LoadCases : l.applied_udot \notin {Some(Zeros33)}
                                    /\ (l.applied_udot = Absent \/ IsFinite(l.applied_udot[1][1][1]))},
        inter \in {-1, 0} }

GrowthInit ==
    /\ process = <<>>
    /\ call = <<>>
    /\ entry = "main_simulation"
    /\ config \in GrowthConfigs
    /\ pc = "step_head"
    /\ fn = "none"
    /\ Idle

\* the increments of one step, from phase k on:
\* growth_tensor * eqincr for each phase with constitutive_law == 30 and a tensor
RECURSIVE GrowthIncrement(_, _, _)
GrowthIncrement(phases, k, eqincr) ==
    IF k > Len(phases) THEN Zeros33
    ELSE LET rest == GrowthIncrement(phases, k + 1, eqincr)
             p == phases[k]
         IN  IF p.constitutive_law = 30 /\ p.growth_rate_tensor # Absent
             THEN M33Add(M33Scale(p.growth_rate_tensor[1], eqincr), rest)
             ELSE rest

\* the head of a step with its growth block, then the call of the core calculation:
\*   if hasattr(config, "phases") and config["phases"]:
\*       for phase_idx, phase_data in config["phases"].items(): ...
\* config is a dict and config["phases"] a list
GrowthStep ==
    /\ entry = "main_simulation"
    /\ pc = "step_head"
    /\ i_step < NumSteps
    /\ i_step' = i_step + 1
    /\ IF HasAttr(DictAttributes, "phases") /\ Len(config.phases) > 0
       THEN IF HasAttr(ListAttributes, "items")
            THEN /\ config' = [config EXCEPT !.total_growth_strain =
                                 Some(M33Add(Get(config.total_growth_strain, Zeros33),
                                             GrowthIncrement(config.phases, 1,
                                                             Get(config.eqincr, DefaultEqincr))))]
                 /\ fn' = CoreOf(config.interaction)
                 /\ pc' = EntryOf(fn')
                 /\ calls' = <<fn'>>
                 /\ UNCHANGED raised
            ELSE /\ raised' = "AttributeError"
                 /\ pc' = "raised"
                 /\ UNCHANGED <<config, fn, calls>>
       ELSE /\ fn' = CoreOf(config.interaction)
            /\ pc' = EntryOf(fn')
            /\ calls' = <<fn'>>
            /\ UNCHANGED <<config, raised>>
    /\ ret' = <<>>
    /\ UNCHANGED <<process, call, entry>>
    /\ UNCHANGED locals

GrowthNext ==
    \/ GrowthStep
    \/ DriverEnd
    \/ DriverOutput
    \/ UpdateOrientation
    \/ UpdateHardening
    \/ UpdateShape
    \/ UpdateTwinning
    \/ WriteTexture
    \/ WritePostmortem
    \/ RunElastic
    \/ RunVpfc

GrowthSpec == GrowthInit /\ [][GrowthNext]_vars

\* a phase with constitutive law 30 and a growth rate tensor
Grows(phases) ==
    \E k \in DOMAIN phases :
        phases[k].constitutive_law = 30 /\ phases[k].growth_rate_tensor # Absent

\* C25: at each step config["total_growth_strain"] grows by growth_rate_tensor
\* x eqincr for every phase with constitutive law 30 and a growth rate tensor,
\* from the zero tensor: after n steps it is n times that sum.
C25_GrowthAccumulates ==
    (entry = "main_simulation" /\ pc # "raised" /\ Grows(config.phases)) =>
        Get(config.total_growth_strain, Zeros33) =
            M33Scale(GrowthIncrement(config.phases, 1, Get(config.eqincr, DefaultEqincr)),
                     RI(i_step))

---------------------------------------------------------------------------
(* run_vpsc against run_vpfc (src/src/core.py)                             *)

\* what run_vpfc returns for the dictionary cfg
RunVpfcOutcome(cfg) ==
    [sbar |-> AggregateStress(cfg.phases, AppliedStrain(cfg)), dbar |-> AppliedStrain(cfg)]

\* run_vpsc hands its result to the caller
VpscReturns == fn = "run_vpsc" /\ pc # "returned" /\ pc' = "returned"

\* C28: for every configuration and step run_vpsc returns the (sbar, dbar)
\* that run_vpfc returns on the same dictionary and leaves the same
\* current_strain and current_stress, for every outer iteration cap
\* itmaxext, 0 included.
C28_VpscEqualsVpfc ==
    [][ VpscReturns =>
          /\ ret'[1] = RunVpfcOutcome(config)
          /\ config' = StoreState(config, RunVpfcOutcome(config).sbar,
                                  RunVpfcOutcome(config).dbar) ]_vars

\* run_vpsc or run_vpfc hands its result to the caller
CoreReturns == fn \in {"run_vpsc", "run_vpfc"} /\ pc # "returned" /\ pc' = "returned"

\* C29: over any sequence of calls of run_vpsc and run_vpfc on one
\* dictionary, each call adds the dbar it returns to config["current_strain"]
\* (zero when absent) and sets config["current_stress"] to the sbar it
\* returns, and nothing else touches the two entries: current_strain is the
\* initial value plus the sum of the returned dbar, current_stress the last sbar.
C29_StrainAccumulates ==
    [][ IF CoreReturns
        THEN /\ config'.current_strain =
                    Some(VAdd(Get(config.current_strain, ZeroVec), ret'[1].dbar))
             /\ config'.current_stress = Some(ret'[1].sbar)
        ELSE /\ config'.current_strain = config.current_strain
             /\ config'.current_stress = config.current_stress ]_vars

\* the second call of a caller returned a strain increment that is not zero
C29_Witness ==
    /\ entry = "direct"
    /\ pc = "returned"
    /\ i_step = 2
    /\ FiniteVec(ret[1].dbar)
    /\ ret[1].dbar # ZeroVec
    /\ config.current_strain = Some(VAdd(ret[1].dbar, ret[1].dbar))
    /\ config.current_stress = Some(ret[1].sbar)

---------------------------------------------------------------------------
(* Shape updates of a phase (src/src/shape.py)                             *)
(* The strain rate is taken along the axes of the ellipsoid (dbar[3..5]    *)
(* zero), and the inputs are those whose roots are rational, so that every *)
(* number of the update is exact.                                          *)

\* largest integer whose root is looked for
RootBound == 128

RECURSIVE Power(_, _)
Power(b, k) == IF k = 0 THEN 1 ELSE b * Power(b, k - 1)

HasRoot(n, k) == \E c \in 0..RootBound : Power(c, k) = n

\* the rational x has a rational k-th root
Exact(x, k) == IsFinite(x) /\ x[1] >= 0 /\ HasRoot(x[1], k) /\ HasRoot(x[2], k)

\* x ** (1 / k)
Root(x, k) ==
    << CHOOSE c \in 0..RootBound : Power(c, k) = x[1],
       CHOOSE c \in 0..RootBound : Power(c, k) = x[2] >>

Perms3 == {p \in [1..3 -> 1..3] : \A i, j \in 1..3 : i # j => p[i] # p[j]}

Max3(r) == CHOOSE x \in {r[i] : i \in 1..3} : \A i \in 1..3 : ~RLess(x, r[i])
Min3(r) == CHOOSE x \in {r[i] : i \in 1..3} : \A i \in 1..3 : ~RLess(r[i], x)

\* eigenvalues of a diagonal matrix as np.linalg.eigh returns them: ascending
Ascending(v) ==
    LET p == CHOOSE q \in Perms3 : \A i, j \in 1..3 : i < j => ~RLess(v[q[j]], v[q[i]])
    IN  [i \in 1..3 |-> v[p[i]]]

\* exp(abs(rate * dt)) of a rate given by e = exp(rate * dt)
Magnitude(e) == IF RLess(e, One) THEN RDiv(One, e) ELSE e

\* eigenvals[np.argsort(np.abs(eigenvals))[::-1]]: largest magnitude first;
\* the stable ascending sort is reversed, so of two equal magnitudes the one
\* later in eigenvals comes first
ByMagnitude(ev) ==
    LET p == CHOOSE q \in Perms3 :
                \A i, j \in 1..3 : i < j =>
                    \/ RLess(Magnitude(ev[q[j]]), Magnitude(ev[q[i]]))
                    \/ Magnitude(ev[q[j]]) = Magnitude(ev[q[i]]) /\ q[i] > q[j]
    IN  [i \in 1..3 |-> ev[p[i]]]

\* crit_aspect = phase_data.get("crit_aspect_ratio", 25.0)
DefaultCritAspect == RI(25)

\* the aspect ratio max / min exceeds the limit
OverLimit(r, crit) == RLess(crit, RDiv(Max3(r), Min3(r)))

\* scale_factor = (crit_aspect * min_ratio / max_ratio) ** 0.5
ScaleFactorSquared(r, crit) == RDiv(RMul(crit, Min3(r)), Max3(r))

\* if max_ratio / min_ratio > crit_aspect:
\*     [r * scale_factor if r == max_ratio else r / scale_factor for r in current_ratios]
LimitAspect(r, crit) ==
    IF OverLimit(r, crit)
    THEN LET scale_factor == Root(ScaleFactorSquared(r, crit), 2)
         IN  [i \in 1..3 |-> IF r[i] = Max3(r) THEN RMul(r[i], scale_factor)
                             ELSE RDiv(r[i], scale_factor)]
    ELSE r

\* current_ratios[i] *= np.exp(principal_rates[i] * dt), the exponentials given
Stretched(ratios, exp_rates) ==
    LET principal == ByMagnitude(Ascending(exp_rates))
    IN  [i \in 1..3 |-> RMul(ratios[i], principal[i])]

\* volume_factor ** 3
Volume(r) == RMul(r[1], RMul(r[2], r[3]))

\* update_shape_plastic_rate: the ellipsoid ratios it stores
PlasticRatios(phase_data, exp_rates) ==
    LET s == Stretched(phase_data.ellipsoid_ratios, exp_rates)
        volume_factor == Root(Volume(s), 3)
        current_ratios == [i \in 1..3 |-> RDiv(s[i], volume_factor)]
    IN  LimitAspect(current_ratios, Get(phase_data.crit_aspect_ratio, DefaultCritAspect))

\* F_total = (I + L * dt) @ deformation_gradient, all diagonal
FTotal(phase_data, ldt) ==
    [i \in 1..3 |-> RMul(RAdd(One, ldt[i]), Get(phase_data.deformation_gradient, Ones3)[i])]

\* singular values of a diagonal matrix: the magnitudes, largest first
SingularValues(f) ==
    LET a == [i \in 1..3 |-> RAbs(f[i])]
        p == CHOOSE q \in Perms3 : \A i, j \in 1..3 : i < j => ~RLess(a[q[i]], a[q[j]])
    IN  [i \in 1..3 |-> a[p[i]]]

\* principal_stretches / np.mean(principal_stretches)
StretchRatios(S) ==
    LET mean_stretch == RDiv(RAdd(S[1], RAdd(S[2], S[3])), RI(3))
    IN  [i \in 1..3 |-> RDiv(S[i], mean_stretch)]

\* starting ratios, exponentials of rate * dt, and limits of the calls
RatioSet == { Ones3, <<RI(32), RI(27), RI(2)>>, <<RI(4), RI(2), One>>, <<RI(8), One, One>> }
ExpRateSet == { <<1, 8>>, <<1, 2>>, One, RI(2), RI(8) }
LdtSet == { RI(-1), <<-1, 2>>, Zero, One, RI(3), RI(15), RI(89), RI(99) }
CritSet == { Absent, Some(RI(4)) }

ShapeData(r, c) == [ellipsoid_ratios |-> r, crit_aspect_ratio |-> c, deformation_gradient |-> Absent]

PlasticRateCalls ==
    { c \in { [phase_data |-> ShapeData(r, crit), exp_rates |-> e] :
                r \in RatioSet, crit \in CritSet, e \in [1..3 -> ExpRateSet] } :
        LET s == Stretched(c.phase_data.ellipsoid_ratios, c.exp_rates)
        IN  /\ Exact(Volume(s), 3)
            /\ LET n == [i \in 1..3 |-> RDiv(s[i], Root(Volume(s), 3))]
                   crit == Get(c.phase_data.crit_aspect_ratio, DefaultCritAspect)
               IN  OverLimit(n, crit) => Exact(ScaleFactorSquared(n, crit), 2) }

DeformationGradientCalls ==
    { c \in { [phase_data |-> ShapeData(Ones3, crit), ldt |-> l] :
                crit \in CritSet, l \in [1..3 -> LdtSet] } :
        LET S == SingularValues(FTotal(c.phase_data, c.ldt))
            crit == Get(c.phase_data.crit_aspect_ratio, DefaultCritAspect)
        IN  /\ S[1] # Zero
            /\ S[3] # Zero =>
                 (OverLimit(StretchRatios(S), crit)
                     => Exact(ScaleFactorSquared(StretchRatios(S), crit), 2)) }

AspectInit ==
    /\ process = <<>>
    /\ \/ entry = "update_shape_plastic_rate" /\ call \in PlasticRateCalls
       \/ entry = "update_shape_deformation_gradient" /\ call \in DeformationGradientCalls
    /\ config = call.phase_data
    /\ pc = "call"
    /\ fn = "none"
    /\ Idle

\* update_shape_plastic_rate(phase_data, dbar, time_incr)
UpdateShapePlasticRate ==
    /\ entry = "update_shape_plastic_rate"
    /\ pc = "call"
    /\ config' = [config EXCEPT !.ellipsoid_ratios = PlasticRatios(config, call.exp_rates)]
    /\ pc' = "returned"
    /\ UNCHANGED <<process, call, entry, i_step, fn, ret, raised, calls>>
    /\ UNCHANGED locals

\* update_shape_deformation_gradient(phase_data, dbar, time_incr); with a
\* singular value of zero max_ratio / min_ratio divides floats by zero
UpdateShapeDeformationGradient ==
    /\ entry = "update_shape_deformation_gradient"
    /\ pc = "call"
    /\ LET F_total == FTotal(config, call.ldt)
           current_ratios == StretchRatios(SingularValues(F_total))
       IN  IF Min3(current_ratios) = Zero
           THEN /\ config' = [config EXCEPT !.deformation_gradient = Some(F_total)]
                /\ raised' = "ZeroDivisionError"
                /\ pc' = "raised"
           ELSE /\ config' = [config EXCEPT
                                !.deformation_gradient = Some(F_total),
                                !.ellipsoid_ratios =
                                    LimitAspect(current_ratios,
                                                Get(config.crit_aspect_ratio, DefaultCritAspect))]
                /\ pc' = "returned"
                /\ UNCHANGED raised
    /\ UNCHANGED <<process, call, entry, i_step, fn, ret, calls>>
    /\ UNCHANGED locals

AspectNext ==
    \/ UpdateShapePlasticRate
    \/ UpdateShapeDeformationGradient

AspectSpec == AspectInit /\ [][AspectNext]_vars

\* C26: after update_shape_plastic_rate and after
\* update_shape_deformation_gradient the ellipsoid ratios of the phase
\* respect the critical aspect ratio: max / min is at most crit_aspect_ratio.
C26_AspectRatioLimited ==
    (entry \in {"update_shape_plastic_rate", "update_shape_deformation_gradient"}
     /\ pc = "returned") =>
        ~OverLimit(config.ellipsoid_ratios, Get(config.crit_aspect_ratio, DefaultCritAspect))

---------------------------------------------------------------------------
(* POSTMORT files: write_postmortem (src/src/writers.py) and               *)
(* read_postmortem (src/src/readers.py). A file is the sequence of its     *)
(* 4-byte words, each word the number packed into it; an array is the      *)
(* sequence of its elements in the order of the loops that write and read  *)
(* it, which index it alike on both sides.                                 *)

RECURSIVE Pow2(_)
Pow2(e) == IF e = 0 THEN 1 ELSE 2 * Pow2(e - 1)

\* the exponent e with 2^23 <= n * 2^e / d, for 0 < n / d < 2^23
RECURSIVE SingleExponent(_, _, _)
SingleExponent(n, d, e) ==
    IF (n * Pow2(e)) \div d >= Pow2(23) THEN e ELSE SingleExponent(n, d, e + 1)

\* struct.pack("f", x): x rounded to single precision, a 24-bit significand,
\* ties to even
Single(x) ==
    IF x = Zero \/ (IsDyadic(x) /\ Abs(x[1]) < Pow2(24)) THEN x
    ELSE LET n == Abs(x[1])
             e == SingleExponent(n, x[2], 0)
             q == (n * Pow2(e)) \div x[2]
             r == (n * Pow2(e)) % x[2]
             up == 2 * r > x[2] \/ (2 * r = x[2] /\ q % 2 = 1)
         IN  Norm(Sign(x[1]) * (IF up THEN q + 1 ELSE q), Pow2(e))

\* the arrays of a saved state, in the order of the file
FieldNames ==
    << "dav", "sav", "dbar0", "mbartg", "lbartg", "sg", "epstotc", "axisph", "fijph",
       "ag", "wgt", "gtotgr", "crss", "taue", "twfrph", "eftwfr", "twfrsy",
       "ntwevents", "ktwsmx" >>

CodeOf(name) == CHOOSE c \in DOMAIN FieldNames : FieldNames[c] = name

\* element k of the array `name` of phase iph (0: the aggregate) in the state
\* that is saved; the integer arrays hold whole numbers
Datum(name, jph, k) ==
    IF name \in {"ntwevents", "ktwsmx"} THEN RI((CodeOf(name) * 4 + jph) * 64 + k)
    ELSE Norm((CodeOf(name) * 4 + jph) * 64 + k, 4)

\* "epsvm": 0.15, "epsacu": 0.2, "pritw", "sectw"
SavedEpsvm == <<3, 20>>
SavedEpsacu == <<1, 5>>
SavedPritw == <<1, 2>>
SavedSectw == <<1, 4>>

\* the words of n floats / n integers of an array
Floats(name, jph, n) == [k \in 1..n |-> Single(Datum(name, jph, k))]
Ints(name, jph, n) == [k \in 1..n |-> Datum(name, jph, k)]

\* config.get(f"{key}_{i}", default) for the keys ngr_i, nsyst_i, ntwmod_i,
\* kept as sequences (ngr from ngr_0 on, the others from phase 1 on)
Key(seq, i, default) == IF i \in DOMAIN seq THEN Get(seq[i], default) ELSE default

\* grains of phase jph: ngr2 - ngr1 + 1
NgrPhase(cfg, jph) == Key(cfg.ngr, jph + 1, 1000) - (Key(cfg.ngr, jph, 0) + 1) + 1

\* the words write_postmortem writes for phase iph
WritePhase(cfg, jph) ==
    LET ngr_phase == NgrPhase(cfg, jph)
        ihardlaw == Get(cfg.ihardlaw, 0)
        nsyst == Key(cfg.nsyst, jph, 12)
        ntwmod == Key(cfg.ntwmod, jph, 0)
    IN  Floats("axisph", jph, 12) \o Floats("fijph", jph, 9)
        \o Floats("ag", jph, 9 * ngr_phase)
        \o Floats("wgt", jph, ngr_phase) \o Floats("gtotgr", jph, ngr_phase)
        \o (IF ihardlaw = 0 THEN Floats("crss", jph, nsyst * ngr_phase)
            ELSE IF ihardlaw = 1 THEN Floats("taue", jph, nsyst * ngr_phase)
            ELSE <<>>)
        \o (IF ntwmod > 0
            THEN <<Single(SavedPritw), Single(SavedSectw)>>
                 \o Ints("ntwevents", jph, ngr_phase)
                 \o Floats("twfrph", jph, ntwmod) \o Floats("eftwfr", jph, ntwmod)
                 \o Ints("ktwsmx", jph, ngr_phase)
                 \o Floats("twfrsy", jph, nsyst * ngr_phase)
            ELSE <<>>)

RECURSIVE WritePhases(_, _, _)
WritePhases(cfg, jph, nph) ==
    IF jph > nph THEN <<>> ELSE WritePhase(cfg, jph) \o WritePhases(cfg, jph + 1, nph)

\* the file write_postmortem(file_path, config) leaves
write_postmortem(cfg) ==
    LET isave == Get(cfg.isave, 1)
        nph == Get(cfg.nph, 1)
        ngr_total == Get(cfg.ngr_total, 1000)
        quick == <<RI(isave)>>
                 \o Floats("dav", 0, 5) \o Floats("sav", 0, 5) \o Floats("dbar0", 0, 5)
                 \o Floats("mbartg", 0, 25) \o Floats("lbartg", 0, 25)
                 \o Floats("sg", 0, 5 * ngr_total)
    IN  IF isave = 1 THEN quick
        ELSE quick
             \o Floats("epstotc", 0, 9) \o <<Single(SavedEpsvm), Single(SavedEpsacu)>>
             \o Floats("axisph", 0, 12) \o Floats("fijph", 0, 9)
             \o WritePhases(cfg, 1, nph)

\* the n words after the first pos words of the file
At(file, pos, n) == [k \in 1..n |-> file[pos + k]]

\* f.read returns the bytes of n words after pos
Have(file, pos, n) == pos + n <= Len(file)

\* the complete rows of 3 words, of `rows` wanted, the file has after pos
RowsHad(file, pos, rows) == Min(rows, (Len(file) - pos) \div 3)

\* an array of np.zeros with the first n words overwritten in place
Overwritten(zeros, file, pos, n) ==
    [k \in DOMAIN zeros |-> IF k <= n THEN file[pos + k] ELSE zeros[k]]

ZeroWords(n) == [k \in 1..n |-> Zero]

\* a reader that takes a hardening array under every law
HardeningWordsAnyLaw(ihardlaw, n) == n

\* words of the hardening array the reader takes: crss under ihardlaw 0,
\* taue under ihardlaw 1, nothing under another law
HardeningWords(ihardlaw, n) == IF ihardlaw \in {0, 1} THEN n ELSE 0

\* outcome of the reader: the dictionary, the words consumed, and the
\* struct.error it caught ("Continuing without recovery data")
ReadOutcome(c, pos, err) == [config |-> c, pos |-> pos, error |-> err]

\* the phase loop of read_postmortem from phase iph on; axisph and fijph are
\* the arrays config already holds, written in place, gd the local grain_data
RECURSIVE ReadPhases(_, _, _, _, _)
ReadPhases(file, c, pos, jph, gd) ==
    IF jph > Get(c.nph, 1)
    THEN ReadOutcome([c EXCEPT !.grain_data = Some(gd)], pos, "none")
    ELSE
    LET ngr_phase == NgrPhase(c, jph)
        ihardlaw == Get(c.ihardlaw, 0)
        nsyst == Key(c.nsyst, jph, 12)
        ntwmod == Key(c.ntwmod, jph, 0)
        ra == RowsHad(file, pos, 4)
        ca == [c EXCEPT !.axisph = Some([p \in DOMAIN c.axisph[1] |->
                    IF p = jph + 1 THEN Overwritten(c.axisph[1][p], file, pos, 3 * ra)
                    ELSE c.axisph[1][p]])]
        pf == pos + 12
        rf == RowsHad(file, pf, 3)
        cf == [ca EXCEPT !.fijph = Some([p \in DOMAIN c.fijph[1] |->
                    IF p = jph + 1 THEN Overwritten(c.fijph[1][p], file, pf, 3 * rf)
                    ELSE c.fijph[1][p]])]
        pg == pf + 9
        pw == pg + 9 * ngr_phase
        ph == pw + 2 * ngr_phase
        hard == HardeningWords(ihardlaw, nsyst * ngr_phase)
        pt == ph + hard
        twin == IF ntwmod > 0 THEN 2 + 2 * ngr_phase + 2 * ntwmod + nsyst * ngr_phase ELSE 0
        grains == [ag |-> At(file, pg, 9 * ngr_phase),
                   wgt |-> At(file, pw, ngr_phase),
                   gtotgr |-> At(file, pw + ngr_phase, ngr_phase),
                   crss |-> IF ihardlaw = 0 THEN Some(At(file, ph, hard)) ELSE Absent,
                   taue |-> IF ihardlaw = 1 THEN Some(At(file, ph, hard)) ELSE Absent,
                   twin_data |->
                       IF ntwmod > 0
                       THEN Some([pritw |-> file[pt + 1], sectw |-> file[pt + 2],
                                  ntwevents |-> At(file, pt + 2, ngr_phase),
                                  twfrph |-> At(file, pt + 2 + ngr_phase, ntwmod),
                                  eftwfr |-> At(file, pt + 2 + ngr_phase + ntwmod, ntwmod),
                                  ktwsmx |-> At(file, pt + 2 + ngr_phase + 2 * ntwmod, ngr_phase),
                                  twfrsy |-> At(file, pt + 2 + 2 * ngr_phase + 2 * ntwmod,
                                                nsyst * ngr_phase)])
                       ELSE Absent]
    IN  IF ra < 4 THEN ReadOutcome(ca, pos + 3 * ra, "struct.error")
        ELSE IF rf < 3 THEN ReadOutcome(cf, pf + 3 * rf, "struct.error")
        ELSE IF ~Have(file, pg, (pt + twin) - pg) THEN ReadOutcome(cf, Len(file), "struct.error")
        ELSE ReadPhases(file, cf, pt + twin, jph + 1, Append(gd, grains))

\* read_postmortem(file_path, config) on a file that exists
read_postmortem(file, cfg) ==
    LET nph == Get(cfg.nph, 1)
        ngr_total == Get(cfg.ngr_total, 1000)
        c1 == [cfg EXCEPT !.isaveprevious = Some(file[1])]
        c2 == [c1 EXCEPT !.dav = Some(At(file, 1, 5)), !.sav = Some(At(file, 6, 5)),
                         !.dbar0 = Some(At(file, 11, 5))]
        c3 == [c2 EXCEPT !.mbartg = Some(At(file, 16, 25)), !.lbartg = Some(At(file, 41, 25))]
        p4 == 66 + 5 * ngr_total
        c4 == [c3 EXCEPT !.sg = Some(At(file, 66, 5 * ngr_total))]
        c5 == [c4 EXCEPT !.epstotc = Some(At(file, p4, 9)), !.epsvm = Some(file[p4 + 10]),
                         !.epsacu = Some(file[p4 + 11])]
        p5 == p4 + 11
        c6 == [c5 EXCEPT
                 !.axisph = Some([p \in 1..(nph + 1) |->
                                IF p = 1 THEN At(file, p5, 12) ELSE ZeroWords(12)]),
                 !.fijph = Some([p \in 1..(nph + 1) |->
                                IF p = 1 THEN At(file, p5 + 12, 9) ELSE ZeroWords(9)])]
    IN  IF ~Have(file, 0, 1) THEN ReadOutcome(cfg, 0, "struct.error")
        ELSE IF ~Have(file, 1, 15) THEN ReadOutcome(c1, Min(Len(file), 16), "struct.error")
        ELSE IF ~Have(file, 16, 50) THEN ReadOutcome(c2, Min(Len(file), 66), "struct.error")
        ELSE IF ~Have(file, 66, 5 * ngr_total) THEN ReadOutcome(c3, Len(file), "struct.error")
        ELSE IF file[1] = One THEN ReadOutcome(c4, p4, "none")
        ELSE IF ~Have(file, p4, 11) THEN ReadOutcome(c4, Len(file), "struct.error")
        ELSE IF ~Have(file, p5, 21) THEN ReadOutcome(c5, Len(file), "struct.error")
        ELSE ReadPhases(file, c6, p5 + 21, 1, <<>>)

\* values of the keys that shape the file: nph, ngr_total, ngr_i, nsyst_i,
\* ihardlaw, ntwmod_i, isave
LayoutKeys ==
    UNION { { [nph |-> Some(n), ngr_total |-> Some(ng[n + 1]),
               ngr |-> [i \in 1..(n + 1) |-> Some(ng[i])],
               nsyst |-> [i \in 1..n |-> ns], ntwmod |-> [i \in 1..n |-> Some(tw[i])],
               ihardlaw |-> Some(h), isave |-> Some(s)] :
                 ng \in {g \in [1..(n + 1) -> 0..(n * MaxGrains)] :
                            g[1] = 0 /\ \A i \in 1..n : g[i + 1] - g[i] \in 1..MaxGrains},
                 ns \in {Absent, Some(2)}, tw \in [1..n -> 0..2],
                 h \in 0..2, s \in {1, 0, 5} } :
            n \in 1..MaxPhases }

\* the empty dictionary
NoLayoutKeys ==
    [nph |-> Absent, ngr_total |-> Absent, ngr |-> <<>>, nsyst |-> <<>>, ntwmod |-> <<>>,
     ihardlaw |-> Absent, isave |-> Absent]

\* the keys read_postmortem stores, none of them present
NoRecovery ==
    [isaveprevious |-> Absent, dav |-> Absent, sav |-> Absent, dbar0 |-> Absent,
     mbartg |-> Absent, lbartg |-> Absent, sg |-> Absent, epstotc |-> Absent,
     epsvm |-> Absent, epsacu |-> Absent, axisph |-> Absent, fijph |-> Absent,
     grain_data |-> Absent]

PostmortemInit ==
    /\ process = [file |-> Absent]
    /\ entry = "postmortem"
    /\ call \in {[writer |-> w, reader |-> r] :
                    w \in LayoutKeys, r \in {"empty", "same"}}
    /\ config = <<>>
    /\ pc = "call"
    /\ fn = "none"
    /\ Idle

\* write_postmortem(test_file, config)
WritePostmortemFile ==
    /\ entry = "postmortem"
    /\ pc = "call"
    /\ process' = [process EXCEPT !.file = Some(write_postmortem(call.writer))]
    /\ pc' = "written"
    /\ UNCHANGED <<call, entry, config, i_step, fn, ret, raised, calls>>
    /\ UNCHANGED locals

\* config_read = read_postmortem(test_file, {}), or with the writer's keys
ReadPostmortemFile ==
    /\ entry = "postmortem"
    /\ pc = "written"
    /\ LET o == read_postmortem(process.file[1],
                                (IF call.reader = "empty" THEN NoLayoutKeys ELSE call.writer)
                                    @@ NoRecovery)
       IN  /\ config' = o.config
           /\ ret' = Some([pos |-> o.pos, error |-> o.error])
    /\ pc' = "returned"
    /\ UNCHANGED <<process, call, entry, i_step, fn, raised, calls>>
    /\ UNCHANGED locals

PostmortemNext ==
    \/ WritePostmortemFile
    \/ ReadPostmortemFile

PostmortemSpec == PostmortemInit /\ [][PostmortemNext]_vars

PostmortemRead(reader) == entry = "postmortem" /\ pc = "returned" /\ call.reader = reader

\* |a - b| < 1e-6
Close(a, b) == LET d == RSub(a, b) IN RLess(<<Abs(d[1]), d[2]>>, <<1, 1000000>>)

\* C22: a state written by write_postmortem and read by read_postmortem into
\* an empty configuration is recovered: the read configuration holds the
\* saved average deformation rate under "dav", the saved restart flag under
\* "isave" and (when the full format was written) the saved von Mises strain
\* under "epsvm"
C22_RecoveredIntoEmptyConfig ==
    PostmortemRead("empty") =>
        /\ config.dav = Some([k \in 1..5 |-> Datum("dav", 0, k)])
        /\ config.isave = call.writer.isave
        /\ (call.writer.isave # Some(1) =>
                config.epsvm # Absent /\ Close(config.epsvm[1], SavedEpsvm))

\* the arrays of phase jph as the writer packed them
WrittenGrains(cfg, jph) ==
    LET n == NgrPhase(cfg, jph)
        nsyst == Key(cfg.nsyst, jph, 12)
        ntwmod == Key(cfg.ntwmod, jph, 0)
    IN  [ag |-> Floats("ag", jph, 9 * n), wgt |-> Floats("wgt", jph, n),
         gtotgr |-> Floats("gtotgr", jph, n),
         crss |-> IF cfg.ihardlaw = Some(0) THEN Some(Floats("crss", jph, nsyst * n))
                  ELSE Absent,
         taue |-> IF cfg.ihardlaw = Some(1) THEN Some(Floats("taue", jph, nsyst * n))
                  ELSE Absent,
         twin_data |->
             IF ntwmod > 0
             THEN Some([pritw |-> Single(SavedPritw), sectw |-> Single(SavedSectw),
                        ntwevents |-> Ints("ntwevents", jph, n),
                        twfrph |-> Floats("twfrph", jph, ntwmod),
                        eftwfr |-> Floats("eftwfr", jph, ntwmod),
                        ktwsmx |-> Ints("ktwsmx", jph, n),
                        twfrsy |-> Floats("twfrsy", jph, nsyst * n)])
             ELSE Absent]

\* every field of the file as the writer packed it, under the key the reader
\* stores it at
WrittenFields(cfg) ==
    LET full == cfg.isave # Some(1)
        nph == cfg.nph[1]
        Full(v) == IF full THEN Some(v) ELSE Absent
    IN  [isaveprevious |-> Some(RI(cfg.isave[1])),
         dav |-> Some(Floats("dav", 0, 5)), sav |-> Some(Floats("sav", 0, 5)),
         dbar0 |-> Some(Floats("dbar0", 0, 5)),
         mbartg |-> Some(Floats("mbartg", 0, 25)), lbartg |-> Some(Floats("lbartg", 0, 25)),
         sg |-> Some(Floats("sg", 0, 5 * cfg.ngr_total[1])),
         epstotc |-> Full(Floats("epstotc", 0, 9)),
         epsvm |-> Full(Single(SavedEpsvm)), epsacu |-> Full(Single(SavedEpsacu)),
         axisph |-> Full([p \in 1..(nph + 1) |-> Floats("axisph", p - 1, 12)]),
         fijph |-> Full([p \in 1..(nph + 1) |-> Floats("fijph", p - 1, 9)]),
         grain_data |-> Full([p \in 1..nph |-> WrittenGrains(cfg, p)])]

\* C30: when the reader uses the configuration values of the writer (nph,
\* ngr_total, ngr_i, nsyst_i, ihardlaw, ntwmod_i), read_postmortem consumes
\* exactly the fields write_postmortem produced: it does not run short of
\* bytes, leaves no byte unread, and every field it stores equals the field
\* written
C30_ReaderMirrorsWriter ==
    PostmortemRead("same") =>
        /\ ret[1].error = "none"
        /\ ret[1].pos = Len(process.file[1])
        /\ config = call.writer @@ WrittenFields(call.writer)

\* a two-phase state in the full format under the MTS law, with twin data,
\* has been read back
C30_Witness ==
    /\ PostmortemRead("same")
    /\ call.writer.isave = Some(5)
    /\ call.writer.nph = Some(2)
    /\ call.writer.ihardlaw = Some(1)
    /\ \A p \in 1..2 : call.writer.ntwmod[p] = Some(2)
    /\ config.grain_data # Absent
    /\ ret[1].pos > 200

====
